---- MODULE Spec2Model ----
(***************************************************************************)
(* Batch execution engine of the GNINA docking workflow.                   *)
(*                                                                         *)
(* Spec       : the Batch Scheduler (GNINADockingEngine.run_parallel_docking *)
(*              with its worker pool, run_single_docking, the Completion   *)
(*              Ledger and the state file), over runs and restarts.        *)
(* FunnelSpec : the Funnel Controller (run_tiered_workflow with            *)
(*              TieredCNNWorkflow.filter_ligands_for_stage).               *)
(* LedgerSpec : Spec in a directory whose output artifacts can disappear   *)
(*              between two processes.                                     *)
(* ParserSpec : one parse_gnina_output call.                               *)
(* FilterSpec : one filter_ligands_for_stage call.                         *)
(* ThreadSpec : Spec with the as_completed loop statement by statement.    *)
(* LoaderSpec : one catalog load and the dispatch that follows it.         *)
(* InvocationSpec : one run_single_docking call with its parse.            *)
(* TerminationSpec : one Scheduler run under fair scheduling.              *)
(* ConfigSpec : set_* calls on a GNINADockingConfig and the command line.  *)
(* HpcSpec    : run_standard_docking of the HPC variant.                   *)
(*                                                                         *)
(* Identifiers are sequences of one-character strings, so that the         *)
(* f-string formatting of tags and file names is real concatenation.       *)
(***************************************************************************)
EXTENDS Integers, Sequences, FiniteSets, TLC

VARIABLES
    catalog,          \* pairlist_df: the rows handed to run_parallel_docking
    batch_size,       \* batch_size argument of run_parallel_docking
    max_workers,      \* GNINADockingEngine.max_workers
    disk,             \* paths of the files that exist under gnina_out/
    state_file,       \* content of results/docking_state.json
    completed_pairs,  \* GNINADockingEngine.completed_pairs
    total_pairs,      \* GNINADockingEngine.total_pairs
    phase,            \* position of the main thread
    runs,             \* number of run_parallel_docking calls so far
    futures,          \* batch_idx -> state of the submitted _process_batch call
    collected,        \* batch indexes already yielded by as_completed
    all_results,      \* all_results of run_parallel_docking
    successful,       \* successful counter of run_parallel_docking
    failed,           \* failed counter of run_parallel_docking
    invocations,      \* history: subprocess.run calls started in this run
    started,          \* history: keys whose child process was started in this run
    skipped,          \* history: keys for which run_single_docking returned None
    ledger0,          \* history: completed_pairs right after load_completed_pairs
    succeeded,        \* history: keys with an invocation that ended in success
    persisted0,       \* history: state_file as it was when the run started
    marking,          \* the main thread inside the counting loop over batch_results
    pairlist_df,      \* run_tiered_workflow: the full catalog
    stages,           \* run_tiered_workflow: the list of stage names
    stage_ptr,        \* run_tiered_workflow: position of the for loop in stages
    previous_results, \* run_tiered_workflow: previous_results (None or a list)
    workflow_results, \* run_tiered_workflow: all_results
    wphase,           \* position of run_tiered_workflow
    stage_inputs,     \* history: per stage position, the input run_stage returned
    stage_outputs,    \* history: per stage position, the results of the stage
    prev_used,        \* history: per stage position, the previous_results it was given
    config,           \* the GNINADockingConfig the engine and the workflow share
    gpu_probe,        \* history: whether nvidia-smi exited with 0 in _detect_gpu
    stage_commands,   \* history: per stage position, the command bases built in it
    output_sdf,       \* parse_gnina_output: the file named by output_sdf
    log_file,         \* parse_gnina_output: the file named by log_file
    parsed,           \* parse_gnina_output: not called yet, or how the call ended
    stage_config,     \* filter_ligands_for_stage: stage_config of the call
    filtered,         \* filter_ligands_for_stage: not called yet, or what it returned
    pairlist_csv,     \* the file pairlist.csv
    loader,           \* which loader reads it: load_and_validate_pairlist or read_pairlist
    loaded,           \* the loader: not called yet, or what it returned
    dispatched,       \* history: child processes started for rows of the loaded catalog
    command,          \* the command line build_gnina_command returned last
    calls,            \* number of set_* calls made on the configuration
    value_error,      \* the last set_* call raised ValueError
    engine_config,    \* HPCGNINAEngine.config, the HPCGNINAConfig of the engine
    use_cpu_mode,     \* the environment has USE_CPU_MODE=1
    cnn_mode,         \* run_standard_docking: the cnn_mode argument
    pairs,            \* run_batch_docking: the pairs read from the pairlist
    pair_idx          \* run_batch_docking: number of pairs whose command was built

\* state of the Funnel Controller
funnelVars == <<pairlist_df, stages, stage_ptr, previous_results, workflow_results,
                wphase, stage_inputs, stage_outputs, prev_used, config, gpu_probe,
                stage_commands>>

\* state of one Scheduler run that the Funnel Controller does not look into
runVars == <<catalog, batch_size, max_workers, state_file, total_pairs, phase, runs,
             futures, collected, all_results, successful, failed, invocations,
             started, skipped, ledger0, succeeded, persisted0, marking>>

\* state of one parse_gnina_output call
parserVars == <<output_sdf, log_file, parsed>>

\* state of one filter_ligands_for_stage call
filterVars == <<stage_config, filtered>>

\* state of a catalog load and of the run that follows it
loaderVars == <<pairlist_csv, loader, loaded, dispatched>>

\* state of the calls that are checked on their own
\* state of the calls made on a configuration object
\* state of a run_standard_docking call of the HPC variant
hpcVars == <<engine_config, use_cpu_mode, cnn_mode, pairs, pair_idx>>

setterVars == <<command, calls, value_error, hpcVars>>

callVars == <<parserVars, filterVars, loaderVars, setterVars>>

vars == <<catalog, batch_size, max_workers, disk, state_file, completed_pairs,
          total_pairs, phase, runs, futures, collected, all_results, successful,
          failed, invocations, started, skipped, ledger0, succeeded, persisted0,
          marking, funnelVars, callVars>>

(***************************************************************************)
(* Bounds of the model.                                                    *)
(***************************************************************************)
MaxItems == 2
MaxBatchSize == 2
MaxWorkers == 2
MaxRuns == 2
MaxPoses == 2

Min(a, b) == IF a < b THEN a ELSE b

(***************************************************************************)
(* Work items.  A row carries receptor, site_id and ligand; the identity   *)
(* key of a WorkItem is the triple.                                        *)
(***************************************************************************)
Row(r, s, l) == [receptor |-> r, site_id |-> s, ligand |-> l]

Key(row) == <<row.receptor, row.site_id, row.ligand>>

\* Rows the catalogs are cut from.  Rows 2 and 3 have different keys whose
\* underscore-joined tags are the same text.
RowPool ==
    << Row(<<"a">>, <<"s">>, <<"y">>),
       Row(<<"a", "_", "b">>, <<"s">>, <<"x">>),
       Row(<<"a">>, <<"b", "_", "s">>, <<"x">>),
       Row(<<"b">>, <<"s">>, <<"x">>) >>

\* Catalogs: the empty catalog and the contiguous windows of RowPool with at
\* most MaxItems rows.  Keys are unique within every catalog.
Catalogs ==
    { SubSeq(RowPool, p[1], p[2]) :
        p \in { q \in (1..Len(RowPool)) \X (0..Len(RowPool)) :
                  /\ q[1] <= q[2] + 1
                  /\ q[2] - q[1] < MaxItems
                  /\ (q[2] < q[1] => q[1] = 1) } }

CatalogKeys == {Key(catalog[i]) : i \in 1..Len(catalog)}

(***************************************************************************)
(* Tool Invoker: names derived from a row.                                 *)
(***************************************************************************)
\* tag = f"{row['receptor']}_{row['site_id']}_{row['ligand']}"
Tag(row) == row.receptor \o <<"_">> \o row.site_id \o <<"_">> \o row.ligand

PosesSuffix == <<"_poses.sdf">>

\* output_sdf = f"gnina_out/{tag}_poses.sdf"
OutputSdf(row) == <<"gnina_out/">> \o Tag(row) \o PosesSuffix

\* pair_id of run_single_docking (same f-string as the tag)
PairId(row) == Tag(row)

(***************************************************************************)
(* Completion Ledger.                                                      *)
(***************************************************************************)
\* os.listdir('gnina_out'): the base names of the files in the directory
ListDir ==
    { SubSeq(p, 2, Len(p)) : p \in { q \in disk : Len(q) >= 1 /\ q[1] = "gnina_out/" } }

EndsWithPoses(file) ==
    Len(file) >= 1 /\ file[Len(file)] = PosesSuffix[1]

\* file.replace('_poses.sdf', ''): every occurrence is removed
RECURSIVE RemovePoses(_)
RemovePoses(file) ==
    IF file = <<>> THEN <<>>
    ELSE IF Head(file) = PosesSuffix[1] THEN RemovePoses(Tail(file))
         ELSE <<Head(file)>> \o RemovePoses(Tail(file))

\* load_completed_pairs: every *_poses.sdf file adds its pair id
LoadCompletedPairs(cp) ==
    cp \cup { RemovePoses(f) : f \in { g \in ListDir : EndsWithPoses(g) } }

\* resume check that looks the output path up instead of the pair id
AlreadyCompletedByPath(pair_id) ==
    (<<"gnina_out/">> \o pair_id \o PosesSuffix) \in completed_pairs

\* the resume check of run_single_docking
AlreadyCompleted(pair_id) == pair_id \in completed_pairs

(***************************************************************************)
(* Batches and the worker pool.                                            *)
(***************************************************************************)
\* batches = [pairlist_df.iloc[i:i+batch_size] for i in range(0, total, batch_size)]
NumBatches == (Len(catalog) + batch_size - 1) \div batch_size

BatchIdx == 0..(NumBatches - 1)

BatchRows(b) ==
    SubSeq(catalog, b * batch_size + 1, Min((b + 1) * batch_size, Len(catalog)))

Running == {b \in DOMAIN futures : futures[b].st = "running"}

Pending == {b \in DOMAIN futures : futures[b].st = "pending"}

\* a pool as wide as the number of batches
PoolAsWideAsBatches == Cardinality(Running) < NumBatches

\* ThreadPoolExecutor(max_workers=self.max_workers): a queued call gets a thread
\* only while fewer than max_workers calls are running
PoolHasFreeWorker == Cardinality(Running) < max_workers

InFlight == {b \in DOMAIN futures : futures[b].inflight}

\* the row whose child process batch b has in flight
RowInFlight(b) == BatchRows(b)[futures[b].pos]

(***************************************************************************)
(* run_single_docking: the DockingResult of one invocation.                *)
(***************************************************************************)
\* a classification that looks at the exit code only
InvocationStatusByExitCode(timedout, returncode, artifact_exists) ==
    IF timedout THEN "timeout"
    ELSE IF returncode = 0 THEN "success"
    ELSE "error"

\* TimeoutExpired -> 'timeout'; returncode == 0 and os.path.exists(output_sdf)
\* -> 'success'; anything else -> 'error'
InvocationStatus(timedout, returncode, artifact_exists) ==
    IF timedout THEN "timeout"
    ELSE IF returncode = 0 /\ artifact_exists THEN "success"
    ELSE "error"

\* the 'error' entry of the result: result.stderr, the timeout message, or
\* str(e) of an exception; a success result has none
ErrorText(status, raised) ==
    CASE status = "success" -> "none"
      [] status = "timeout" -> "Timeout after"
      [] raised -> "str(e)"
      [] OTHER -> "stderr"

DockingResult(row, status, error) ==
    [status |-> status, receptor |-> row.receptor, ligand |-> row.ligand,
     site_id |-> row.site_id, pair_id |-> PairId(row), error |-> error,
     batch_idx |-> -1]

ResultKey(r) == <<r.receptor, r.site_id, r.ligand>>

\* a batch that keeps only its successes
AppendSuccessOnly(batch_results, result, batch_idx) ==
    IF result.status = "success"
    THEN Append(batch_results, [result EXCEPT !.batch_idx = batch_idx])
    ELSE batch_results

\* _process_batch: "if result: result['batch_idx'] = batch_idx; append"
AppendBatchResult(batch_results, result, batch_idx) ==
    Append(batch_results, [result EXCEPT !.batch_idx = batch_idx])

\* a batch that stops at its first failed item
AfterRowStopAtFailure(f, b) ==
    IF \/ f.pos > Len(BatchRows(b))
       \/ (f.results # <<>> /\ f.results[Len(f.results)].status # "success")
    THEN [f EXCEPT !.st = "done"] ELSE f

\* a batch whose pool thread hangs after its last row instead of returning
AfterRowNeverReturns(f, b) ==
    IF f.pos > Len(BatchRows(b)) THEN [f EXCEPT !.st = "hung"] ELSE f

\* _process_batch returns once the loop over its rows is over
AfterRow(f, b) ==
    IF f.pos > Len(BatchRows(b)) THEN [f EXCEPT !.st = "done"] ELSE f

(***************************************************************************)
(* run_parallel_docking: what the main thread does with a finished batch.  *)
(***************************************************************************)
SuccessesOf(rs) == {i \in 1..Len(rs) : rs[i].status = "success"}

\* all_results.extend(batch_results)
ExtendResults(results, batch_results) == results \o batch_results

\* self.completed_pairs.add(result['pair_id']) for the successes
MarkSuccess(cp, batch_results) ==
    cp \cup {batch_results[i].pair_id : i \in SuccessesOf(batch_results)}

SaveOutcomes == {"ok", "write_failed"}

NoStateFile == [kind |-> "absent", completed_pairs |-> {}, total_pairs |-> 0,
                results_count |-> 0]

\* a save that writes the completed set the run started with
SaveLedgerAtStart(old, cp, results, outcome) ==
    CASE outcome = "ok" ->
            [kind |-> "valid", completed_pairs |-> ledger0, total_pairs |-> total_pairs,
             results_count |-> Len(results)]
      [] outcome = "write_failed" -> [NoStateFile EXCEPT !.kind = "truncated"]

\* save_docking_state: open(self.state_file, 'w') truncates, json.dump writes
SaveDockingState(old, cp, results, outcome) ==
    CASE outcome = "ok" ->
            [kind |-> "valid", completed_pairs |-> cp, total_pairs |-> total_pairs,
             results_count |-> Len(results)]
      [] outcome = "write_failed" -> [NoStateFile EXCEPT !.kind = "truncated"]

(***************************************************************************)
(* TieredCNNWorkflow: the stage table.  Scores are in hundredths (0.5 is    *)
(* 50), top_percentage is in percent, and None is written NoLimit.          *)
(***************************************************************************)
NoLimit == -1

\* TieredCNNWorkflow.stages
StageConfig(stage) ==
    CASE stage = "A" ->
            [cnn_scoring |-> "rescore", exhaustiveness |-> 12, num_modes |-> 8,
             cnn_score_threshold |-> 50, max_ligands_per_receptor |-> NoLimit,
             top_percentage |-> NoLimit]
      [] stage = "B" ->
            [cnn_scoring |-> "refinement", exhaustiveness |-> 24, num_modes |-> 15,
             cnn_score_threshold |-> 70, max_ligands_per_receptor |-> 5,
             top_percentage |-> 5]
      [] stage = "C" ->
            [cnn_scoring |-> "all", exhaustiveness |-> 48, num_modes |-> 20,
             cnn_score_threshold |-> 80, max_ligands_per_receptor |-> 2,
             top_percentage |-> 1]

StageNames == {"A", "B", "C"}

(***************************************************************************)
(* GNINADockingConfig: base_config, active_config, the tiered stage table  *)
(* and the command arguments derived from active_config.                   *)
(***************************************************************************)
\* base_config after _detect_gpu has put its finding into use_gpu
BaseConfig(gpu_found) ==
    [exhaustiveness |-> 32, num_modes |-> 20, seed |-> 42, cpu_cores |-> 4,
     timeout |-> 300, min_rmsd_filter |-> "1.0", pose_sort_order |-> 0,
     cnn_rotation |-> 0, add_hydrogens |-> TRUE, strip_hydrogens |-> FALSE,
     use_gpu |-> gpu_found, gpu_device |-> 0]

\* active_config = base_config.copy() with cnn_scoring = 'rescore'
NewConfig(gpu_found) ==
    [base_config |-> BaseConfig(gpu_found),
     active_config |->
        [f \in DOMAIN BaseConfig(gpu_found) \cup {"cnn_scoring"} |->
           IF f = "cnn_scoring" THEN "rescore" ELSE BaseConfig(gpu_found)[f]]]

\* GNINADockingConfig.tiered_config
TieredConfig(key) ==
    CASE key = "stage_a" ->
            [cnn_scoring |-> "rescore", exhaustiveness |-> 12, num_modes |-> 8]
      [] key = "stage_b" ->
            [cnn_scoring |-> "refinement", exhaustiveness |-> 24, num_modes |-> 15]
      [] key = "stage_c" ->
            [cnn_scoring |-> "all", exhaustiveness |-> 48, num_modes |-> 20]

\* f'stage_{stage.lower()}'
StageKey(stage) ==
    CASE stage = "A" -> "stage_a" [] stage = "B" -> "stage_b" [] stage = "C" -> "stage_c"

\* a stage switch that leaves the active configuration as it is
KeepActiveConfig(cfg, key) == cfg

\* a stage switch that starts again from the base configuration
SetTieredStageFromBase(cfg, key) ==
    [cfg EXCEPT !.active_config =
        [f \in DOMAIN cfg.active_config |->
           IF f \in {"cnn_scoring", "exhaustiveness", "num_modes"}
           THEN TieredConfig(key)[f] ELSE cfg.base_config[f]]]

\* set_tiered_stage: active_config.update with the three values of the stage
SetTieredStage(cfg, key) ==
    [cfg EXCEPT !.active_config.cnn_scoring = TieredConfig(key).cnn_scoring,
                !.active_config.exhaustiveness = TieredConfig(key).exhaustiveness,
                !.active_config.num_modes = TieredConfig(key).num_modes]

\* GNINADockingConfig.cnn_modes
CnnModes == {"none", "rescore", "refinement", "all"}

\* the keys of GNINADockingConfig.tiered_config
TieredStages == {"stage_a", "stage_b", "stage_c"}

\* a parameter left at its default None
Unset == -1

\* set_gpu_acceleration that takes the request as it is
SetGpuAccelerationAsAsked(cfg, use_gpu, gpu_device) ==
    [cfg EXCEPT !.active_config.use_gpu = use_gpu,
                !.active_config.gpu_device = gpu_device,
                !.base_config.use_gpu = use_gpu]

\* set_gpu_acceleration: the request is stored, and withdrawn when the probe
\* found no GPU
SetGpuAcceleration(cfg, use_gpu, gpu_device) ==
    [cfg EXCEPT !.active_config.use_gpu = use_gpu /\ cfg.base_config.use_gpu,
                !.active_config.gpu_device = gpu_device]

\* set_cnn_mode for a mode of cnn_modes
SetCnnMode(cfg, mode) == [cfg EXCEPT !.active_config.cnn_scoring = mode]

\* set_performance_params: only the parameters that are given are stored
SetPerformanceParams(cfg, exhaustiveness, num_modes, cpu_cores) ==
    [cfg EXCEPT
       !.active_config.exhaustiveness =
            IF exhaustiveness # Unset THEN exhaustiveness ELSE @,
       !.active_config.num_modes = IF num_modes # Unset THEN num_modes ELSE @,
       !.active_config.cpu_cores = IF cpu_cores # Unset THEN cpu_cores ELSE @]

\* str(n) for the numbers of the configuration
Str(n) ==
    CASE n = 0 -> "0" [] n = 1 -> "1" [] n = 4 -> "4" [] n = 8 -> "8" [] n = 12 -> "12"
      [] n = 15 -> "15" [] n = 20 -> "20" [] n = 24 -> "24" [] n = 32 -> "32"
      [] n = 42 -> "42" [] n = 48 -> "48"

\* get_gnina_command_base: the arguments taken from active_config
GetGninaCommandBase(cfg) ==
    LET active == cfg.active_config IN
    << "--exhaustiveness", Str(active.exhaustiveness),
       "--num_modes", Str(active.num_modes),
       "--seed", Str(active.seed),
       "--cnn_scoring", active.cnn_scoring,
       "--cnn_rotation", Str(active.cnn_rotation),
       "--min_rmsd_filter", active.min_rmsd_filter,
       "--pose_sort_order", Str(active.pose_sort_order) >>
      \o (IF active.use_gpu /\ cfg.base_config.use_gpu
          THEN <<"--device", Str(active.gpu_device)>>
          ELSE <<"--cpu", Str(active.cpu_cores)>>)
      \o (IF active.add_hydrogens THEN <<"--addH">> ELSE <<>>)
      \o (IF active.strip_hydrogens THEN <<"--stripH">> ELSE <<>>)

(***************************************************************************)
(* Output Parser: parse_gnina_output.  A file is missing, unreadable (open  *)
(* or read raises) or a text; a text is a sequence of lines and a line the  *)
(* sequence of its whitespace-separated words.  Scores are in hundredths.   *)
(***************************************************************************)
MaxLines == 2

MissingFile == [kind |-> "missing", lines |-> <<>>]

UnreadableFile == [kind |-> "unreadable", lines |-> <<>>]

\* lines an output file is made of: a blank line, the record separator, the
\* SD tag line of a score, a bare value, and lines with tag and value together
SdfLines ==
    { <<>>,
      <<"$$$$">>,
      <<">", "<CNNscore>">>,
      <<"0.9">>,
      <<"CNNscore", "0.6">>,
      <<"CNNscore", "0.9">> }

SdfTexts == UNION {[1..n -> SdfLines] : n \in 0..MaxLines}

SdfFiles == {MissingFile, UnreadableFile} \cup {[kind |-> "text", lines |-> t] : t \in SdfTexts}

LogFiles == {MissingFile, UnreadableFile, [kind |-> "text", lines |-> << <<"Total", "time">> >>]}

\* content.split('\n'): an empty text is one empty line
SplitLines(text) == IF text = <<>> THEN << <<>> >> ELSE text

\* a line that every parser would take for a score line
LineIsNotBlank(line) == line # <<>>

\* 'CNNscore' in line
LineHasCNNscore(line) ==
    \E i \in 1..Len(line) : line[i] \in {"CNNscore", "<CNNscore>"}

\* float(word) succeeds
IsFloat(word) == word \in {"0.6", "0.9"}

\* float(word), in hundredths
FloatOf(word) == CASE word = "0.6" -> 60 [] word = "0.9" -> 90

\* a loop in which every tagged line takes a pose number, a number on its
\* last word or not
ParseLinesNumberedByTag(lines, scores) ==
    LET tagged(i) == LineHasCNNscore(lines[i])
        scored == {i \in 1..Len(lines) : tagged(i) /\ IsFloat(lines[i][Len(lines[i])])}
        nth(k) == CHOOSE i \in scored : Cardinality({j \in scored : j <= i}) = k
    IN scores \o [k \in 1..Cardinality(scored) |->
                   [pose_id |-> Len(scores)
                                + Cardinality({j \in 1..nth(k) : tagged(j)}),
                    cnn_score |-> FloatOf(lines[nth(k)][Len(lines[nth(k)])]),
                    cnn_affinity |-> FloatOf(lines[nth(k)][Len(lines[nth(k)])])]]

\* the loop over the lines: a line with the tag whose last word is a number
\* appends a score, a line whose last word is not a number is passed over
RECURSIVE ParseLines(_, _)
ParseLines(lines, scores) ==
    IF lines = <<>> THEN scores
    ELSE LET line == Head(lines) IN
         IF LineHasCNNscore(line) /\ IsFloat(line[Len(line)])
         THEN ParseLines(Tail(lines),
                         Append(scores, [pose_id |-> Len(scores) + 1,
                                         cnn_score |-> FloatOf(line[Len(line)]),
                                         cnn_affinity |-> FloatOf(line[Len(line)])]))
         ELSE ParseLines(Tail(lines), scores)

NotParsed == [called |-> FALSE, raised |-> FALSE, scores |-> <<>>]

\* parse_gnina_output: a missing file is not opened; an exception of open or
\* read is caught by "except Exception" and the scores read so far are returned
ParseGninaOutput(sdf, log) ==
    [called |-> TRUE,
     raised |-> FALSE,
     scores |-> IF sdf.kind = "text" THEN ParseLines(SplitLines(sdf.lines), <<>>)
                ELSE <<>>]

\* no parse_gnina_output call is modelled
ParserIdle ==
    /\ output_sdf = MissingFile
    /\ log_file = MissingFile
    /\ parsed = NotParsed

NotFiltered == [called |-> FALSE, rows |-> <<>>]

\* no filter_ligands_for_stage call is modelled on its own
FilterIdle ==
    /\ stage_config = StageConfig("A")
    /\ filtered = NotFiltered

(***************************************************************************)
(* Catalog loaders: load_and_validate_pairlist (pandas) and                 *)
(* HPCGNINAEngine.read_pairlist (csv.DictReader).  A file is a header, the  *)
(* set of its column names, and rows that map each column to a cell text.   *)
(***************************************************************************)
MaxCsvRows == 2

RequiredCols ==
    {"receptor", "ligand", "center_x", "center_y", "center_z", "size_x", "size_y", "size_z"}

CoordCols == {"center_x", "center_y", "center_z", "size_x", "size_y", "size_z"}

\* headers: every column, no site_id column, no size_z column
CsvHeaders ==
    {RequiredCols \cup {"site_id"}, RequiredCols, (RequiredCols \ {"size_z"}) \cup {"site_id"}}

\* cell texts of a geometry field: a number, a word, a missing-value marker,
\* an empty cell
GeometryCells == {"1.5", "abc", "N/A", ""}

\* float(text) succeeds / the text parses as a number
IsNumberText(text) == text = "1.5"

\* the texts pandas.read_csv reads as NaN (its default na_values)
IsNaMarker(text) == text \in {"", "N/A"}

\* a row over the header: the cell of center_x varies, the other geometry
\* cells are numbers
CsvRow(header, ligand, cell) ==
    [c \in header |->
       CASE c = "receptor" -> "a"
         [] c = "ligand" -> ligand
         [] c = "site_id" -> "s"
         [] c = "center_x" -> cell
         [] OTHER -> "1.5"]

CsvLigands == <<"x", "y", "z">>

CsvFiles ==
    UNION { UNION { { [header |-> h,
                       rows |-> [i \in 1..n |-> CsvRow(h, CsvLigands[i], cells[i])]] :
                      cells \in [1..n -> GeometryCells] } :
                    n \in 0..MaxCsvRows } :
            h \in CsvHeaders }

NoCatalog == [called |-> TRUE, none |-> TRUE, rows |-> <<>>]

\* "if 'site_id' not in ...: ... = 'site_1'"
WithSiteId(row) ==
    [c \in DOMAIN row \cup {"site_id"} |->
       IF c \in DOMAIN row THEN row[c] ELSE "site_1"]

\* is_numeric_dtype(df[col]): read_csv gives a column a numeric dtype when
\* each of its cells is a number or reads as NaN; a column of a frame without
\* rows has dtype object
ColumnIsNumeric(file, col) ==
    /\ Len(file.rows) > 0
    /\ \A i \in 1..Len(file.rows) :
          IsNumberText(file.rows[i][col]) \/ IsNaMarker(file.rows[i][col])

\* load_and_validate_pairlist: None for a missing column or a column that is
\* not numeric, else the frame with site_id added
LoadAndValidatePairlist(file) ==
    IF RequiredCols \ file.header # {} THEN NoCatalog
    ELSE IF \E col \in CoordCols : ~ColumnIsNumeric(file, col) THEN NoCatalog
    ELSE [called |-> TRUE, none |-> FALSE,
          rows |-> [i \in 1..Len(file.rows) |-> WithSiteId(file.rows[i])]]

\* read_pairlist, one row after the other: [] at the first row with a missing
\* or empty required cell or a geometry cell float() does not take
RowIsAccepted(row) ==
    /\ \A col \in RequiredCols : col \in DOMAIN row /\ row[col] # ""
    /\ \A col \in CoordCols : IsNumberText(row[col])

ReadPairlist(file) ==
    [called |-> TRUE, none |-> FALSE,
     rows |-> IF \A i \in 1..Len(file.rows) : RowIsAccepted(file.rows[i])
              THEN [i \in 1..Len(file.rows) |-> WithSiteId(file.rows[i])]
              ELSE <<>>]

NotLoaded == [called |-> FALSE, none |-> FALSE, rows |-> <<>>]

\* get_apptainer_command: the wrapper in front of the GNINA arguments
GetApptainerCommand(gnina_args) ==
    <<"apptainer", "exec", "--nv",
      "$HOME/cuda12.3.2-cudnn9-runtime-ubuntu22.04.sif", "$HOME/gnina">>
      \o gnina_args

\* build_gnina_command for the row a, s, y with a box at 1.5 of size 20
BuildGninaCommand(cfg, flexible_residues) ==
    GetApptainerCommand(
        <<"--receptor", "receptors/a.pdbqt", "--ligand", "ligands/y.pdbqt",
          "--out", "gnina_out/a_s_y_poses.sdf", "--log", "logs/a_s_y.log",
          "--center_x", "1.5", "--center_y", "1.5", "--center_z", "1.5",
          "--size_x", "20", "--size_y", "20", "--size_z", "20">>
          \o GetGninaCommandBase(cfg)
          \o (IF flexible_residues
              THEN <<"--flexres", "A:1", "--flexdist", "3.5",
                     "--out_flex", "gnina_out/a_s_y_flex.pdbqt">>
              ELSE <<>>))

(***************************************************************************)
(* HPCGNINAConfig and the command line of HPCGNINAEngine.                  *)
(***************************************************************************)
\* HPCGNINAConfig.__init__ up to the probe: use_gpu is "not use_cpu_mode" and
\* the wrapper flag is empty in CPU mode
HpcConfigBeforeProbe(cpu_mode) ==
    LET base == [exhaustiveness |-> 32, num_modes |-> 20, seed |-> 42,
                 cpu_cores |-> 4, timeout |-> 300, min_rmsd_filter |-> "1.0",
                 pose_sort_order |-> "CNNscore", cnn_rotation |-> 0,
                 add_hydrogens |-> TRUE, strip_hydrogens |-> FALSE,
                 use_gpu |-> ~cpu_mode, gpu_device |-> 0]
    IN [hpc_config |-> [use_gpu_flag |-> IF cpu_mode THEN "" ELSE "--nv"],
        base_config |-> base,
        active_config |-> [f \in DOMAIN base \cup {"cnn_scoring"} |->
                             IF f = "cnn_scoring" THEN "rescore" ELSE base[f]]]

\* HPCGNINAConfig._detect_gpu: both use_gpu entries become the answer of
\* nvidia-smi
HpcDetectGpu(cfg, gpu_found) ==
    [cfg EXCEPT !.base_config.use_gpu = gpu_found,
                !.active_config.use_gpu = gpu_found]

\* HPCGNINAConfig()
HpcNewConfig(cpu_mode, gpu_found) ==
    HpcDetectGpu(HpcConfigBeforeProbe(cpu_mode), gpu_found)

\* HPCGNINAConfig.get_gnina_command_base
HpcGetGninaCommandBase(cfg) ==
    LET active == cfg.active_config IN
    << "--exhaustiveness", Str(active.exhaustiveness),
       "--num_modes", Str(active.num_modes),
       "--seed", Str(active.seed),
       "--cnn_scoring", active.cnn_scoring,
       "--cnn_rotation", Str(active.cnn_rotation),
       "--min_rmsd_filter", active.min_rmsd_filter,
       "--pose_sort_order", active.pose_sort_order >>
      \o (IF active.use_gpu /\ cfg.base_config.use_gpu
          THEN <<"--device", Str(active.gpu_device)>>
          ELSE <<"--cpu", Str(active.cpu_cores)>>)
      \o <<"--addH", IF active.add_hydrogens THEN "on" ELSE "off">>
      \o <<"--stripH", IF active.strip_hydrogens THEN "on" ELSE "off">>

\* HPCGNINAConfig.get_apptainer_command: the wrapper flag is left out when it
\* is empty
HpcGetApptainerCommand(cfg, gnina_args) ==
    <<"apptainer", "exec">>
      \o (IF cfg.hpc_config.use_gpu_flag # ""
          THEN <<cfg.hpc_config.use_gpu_flag>> ELSE <<>>)
      \o <<"$HOME/cuda12.3.2-cudnn9-runtime-ubuntu22.04.sif", "$HOME/gnina">>
      \o gnina_args

\* the characters of an identifier as one string
RECURSIVE Text(_)
Text(id) == IF id = <<>> THEN "" ELSE Head(id) \o Text(Tail(id))

\* HPCGNINAEngine.build_gnina_command for a row with a box at 1.5 of size 20
HpcBuildGninaCommand(cfg, row) ==
    LET tag == Text(row.receptor) \o "_" \o Text(row.site_id) \o "_"
                 \o Text(row.ligand)
    IN HpcGetApptainerCommand(cfg,
         <<"--receptor", "receptors/" \o Text(row.receptor) \o ".pdbqt",
           "--ligand", "ligands/" \o Text(row.ligand) \o ".pdbqt",
           "--out", "gnina_out/" \o tag \o "_poses.sdf",
           "--log", "logs/" \o tag \o ".log",
           "--center_x", "1.5", "--center_y", "1.5", "--center_z", "1.5",
           "--size_x", "20", "--size_y", "20", "--size_z", "20">>
           \o HpcGetGninaCommandBase(cfg))

\* no run of the HPC variant is modelled
HpcIdle ==
    /\ engine_config = HpcNewConfig(FALSE, FALSE)
    /\ use_cpu_mode = FALSE
    /\ cnn_mode = "rescore"
    /\ pairs = <<>>
    /\ pair_idx = 0

\* no call on a configuration object is modelled
SetterIdle ==
    /\ command = <<>>
    /\ calls = 0
    /\ value_error = FALSE
    /\ HpcIdle

\* no catalog load is modelled
LoaderIdle ==
    /\ pairlist_csv = [header |-> RequiredCols, rows |-> <<>>]
    /\ loader = "pandas"
    /\ loaded = NotLoaded
    /\ dispatched = 0

(***************************************************************************)
(* Initial states: a fresh project directory and a new engine.             *)
(***************************************************************************)
NoFutures == [b \in {} |-> [st |-> "pending", pos |-> 1, inflight |-> FALSE,
                            results |-> <<>>]]

NoPrevious == [none |-> TRUE, results |-> <<>>]

\* the main thread is not inside the counting loop
NoMarking == [batch |-> -1, pos |-> 0, at |-> "none"]

\* the Funnel Controller is not in use
FunnelIdle ==
    /\ pairlist_df = <<>>
    /\ stages = <<>>
    /\ stage_ptr = 1
    /\ previous_results = NoPrevious
    /\ workflow_results = <<>>
    /\ wphase = "idle"
    /\ stage_inputs = <<>>
    /\ stage_outputs = <<>>
    /\ prev_used = <<>>
    /\ gpu_probe = FALSE
    /\ config = NewConfig(FALSE)
    /\ stage_commands = <<>>

Init ==
    /\ FunnelIdle
    /\ ParserIdle
    /\ FilterIdle
    /\ LoaderIdle
    /\ SetterIdle
    /\ catalog \in Catalogs
    /\ batch_size \in 1..MaxBatchSize
    /\ max_workers \in 1..MaxWorkers
    /\ disk = {}
    /\ state_file = NoStateFile
    /\ completed_pairs = {}
    /\ total_pairs = 0
    /\ phase = "idle"
    /\ runs = 0
    /\ futures = NoFutures
    /\ collected = {}
    /\ all_results = <<>>
    /\ successful = 0
    /\ failed = 0
    /\ invocations = 0
    /\ started = {}
    /\ skipped = {}
    /\ ledger0 = {}
    /\ succeeded = {}
    /\ persisted0 = NoStateFile
    /\ marking = NoMarking

(***************************************************************************)
(* Actions of the Scheduler.                                               *)
(***************************************************************************)
\* run_parallel_docking up to the submission of all batches
StartRun ==
    /\ phase \in {"idle", "returned"}
    /\ runs < MaxRuns
    /\ runs' = runs + 1
    /\ total_pairs' = Len(catalog)
    /\ completed_pairs' = LoadCompletedPairs(completed_pairs)
    /\ ledger0' = completed_pairs'
    /\ persisted0' = state_file
    /\ futures' = [b \in BatchIdx |-> [st |-> "pending", pos |-> 1,
                                        inflight |-> FALSE, results |-> <<>>]]
    /\ collected' = {}
    /\ all_results' = <<>>
    /\ successful' = 0
    /\ failed' = 0
    /\ invocations' = 0
    /\ started' = {}
    /\ skipped' = {}
    /\ phase' = "collecting"
    /\ UNCHANGED <<catalog, batch_size, max_workers, disk, state_file, succeeded>>
    /\ UNCHANGED <<marking, funnelVars, callVars>>

\* a pool thread takes the oldest queued _process_batch call
WorkerTakesBatch(b) ==
    /\ phase = "collecting"
    /\ b \in Pending
    /\ \A c \in Pending : b <= c
    /\ PoolHasFreeWorker
    /\ futures' = [futures EXCEPT ![b].st = "running"]
    /\ UNCHANGED <<catalog, batch_size, max_workers, disk, state_file,
                   completed_pairs, total_pairs, phase, runs, collected,
                   all_results, successful, failed, invocations, started, skipped,
                   ledger0, succeeded>>
    /\ UNCHANGED <<persisted0, marking, funnelVars, callVars>>

\* run_single_docking up to subprocess.run: skip (return None) or start the child
RunSingleDocking(b) ==
    /\ phase = "collecting"
    /\ b \in Running
    /\ ~futures[b].inflight
    /\ LET row == BatchRows(b)[futures[b].pos] IN
       IF AlreadyCompleted(PairId(row))
       THEN /\ futures' = [futures EXCEPT
                             ![b] = AfterRow([@ EXCEPT !.pos = @ + 1], b)]
            /\ skipped' = skipped \cup {Key(row)}
            /\ UNCHANGED <<invocations, started>>
       ELSE /\ futures' = [futures EXCEPT ![b].inflight = TRUE]
            /\ invocations' = invocations + 1
            /\ started' = started \cup {Key(row)}
            /\ UNCHANGED skipped
    /\ UNCHANGED <<catalog, batch_size, max_workers, disk, state_file,
                   completed_pairs, total_pairs, phase, runs, collected,
                   all_results, successful, failed, ledger0, succeeded>>
    /\ UNCHANGED <<persisted0, marking, funnelVars, callVars>>

\* the child process exits or is cut off; run_single_docking returns its result
ChildEnds(b, timedout, returncode, wrote) ==
    /\ phase = "collecting"
    /\ b \in InFlight
    /\ LET row == BatchRows(b)[futures[b].pos]
           disk1 == IF wrote THEN disk \cup {OutputSdf(row)} ELSE disk
           status == InvocationStatus(timedout, returncode, OutputSdf(row) \in disk1)
           result == DockingResult(row, status, ErrorText(status, FALSE))
       IN /\ disk' = disk1
          /\ futures' = [futures EXCEPT
                           ![b] = AfterRow([@ EXCEPT
                                      !.inflight = FALSE,
                                      !.pos = @ + 1,
                                      !.results = AppendBatchResult(@, result, b)], b)]
          /\ succeeded' = IF status = "success" THEN succeeded \cup {Key(row)}
                          ELSE succeeded
    /\ UNCHANGED <<catalog, batch_size, max_workers, state_file, completed_pairs,
                   total_pairs, phase, runs, collected, all_results, successful,
                   failed, invocations, started, skipped, ledger0>>
    /\ UNCHANGED <<persisted0, marking, funnelVars, callVars>>

\* one iteration of the as_completed loop: extend, count, mark, save
CollectBatch(b, outcome) ==
    /\ phase = "collecting"
    /\ b \in DOMAIN futures
    /\ futures[b].st = "done"
    /\ b \notin collected
    /\ LET batch_results == futures[b].results
           nsucc == Cardinality(SuccessesOf(batch_results))
       IN /\ all_results' = ExtendResults(all_results, batch_results)
          /\ successful' = successful + nsucc
          /\ completed_pairs' = MarkSuccess(completed_pairs, batch_results)
          /\ state_file' = SaveDockingState(state_file, completed_pairs',
                                            all_results', outcome)
          /\ failed' = failed + (Len(batch_results) - nsucc)
                         + (IF outcome = "ok" THEN 0 ELSE Len(BatchRows(b)))
    /\ collected' = collected \cup {b}
    /\ UNCHANGED <<catalog, batch_size, max_workers, disk, total_pairs, phase,
                   runs, futures, invocations, started, skipped, ledger0,
                   succeeded>>
    /\ UNCHANGED <<persisted0, marking, funnelVars, callVars>>

\* subprocess.run (or building the command) raises something other than
\* TimeoutExpired: "except Exception" turns it into an error result
InvocationRaises(b) ==
    /\ phase = "collecting"
    /\ b \in InFlight
    /\ LET row == BatchRows(b)[futures[b].pos]
           result == DockingResult(row, "error", ErrorText("error", TRUE))
       IN futures' = [futures EXCEPT
                        ![b] = AfterRow([@ EXCEPT
                                   !.inflight = FALSE,
                                   !.pos = @ + 1,
                                   !.results = AppendBatchResult(@, result, b)], b)]
    /\ UNCHANGED <<catalog, batch_size, max_workers, disk, state_file,
                   completed_pairs, total_pairs, phase, runs, collected,
                   all_results, successful, failed, invocations, started, skipped,
                   ledger0, succeeded>>
    /\ UNCHANGED <<persisted0, marking, funnelVars, callVars>>

\* the process dies inside save_docking_state, after open(..., 'w') has
\* truncated the state file and before json.dump has written all of it
CrashDuringSave(b) ==
    /\ phase = "collecting"
    /\ b \in DOMAIN futures
    /\ futures[b].st = "done"
    /\ b \notin collected
    /\ state_file' = [NoStateFile EXCEPT !.kind = "truncated"]
    /\ phase' = "crashed"
    /\ UNCHANGED <<catalog, batch_size, max_workers, disk, completed_pairs,
                   total_pairs, runs, futures, collected, all_results, successful,
                   failed, invocations, started, skipped, ledger0, succeeded>>
    /\ UNCHANGED <<persisted0, marking, funnelVars, callVars>>

\* between two processes an output artifact disappears from gnina_out/
\* (the directory is read again by the next load_completed_pairs)
ArtifactRemoved(path) ==
    /\ phase = "idle"
    /\ runs >= 1
    /\ path \in disk
    /\ disk' = disk \ {path}
    /\ UNCHANGED <<catalog, batch_size, max_workers, state_file, completed_pairs,
                   total_pairs, phase, runs, futures, collected, all_results,
                   successful, failed, invocations, started, skipped, ledger0,
                   succeeded>>
    /\ UNCHANGED <<persisted0, marking, funnelVars, callVars>>

\* a success rate taken over the successes instead of over the pairs
RateOverSuccessesRaises(total, nsuccessful) == nsuccessful = 0

\* successful/self.total_pairs*100 raises ZeroDivisionError
SuccessRateRaises(total, nsuccessful) == total = 0

\* the "Success rate" line of the summary, in tenths of a percent
SuccessRate(total, nsuccessful) == (nsuccessful * 1000) \div total

\* the summary and the return of run_parallel_docking
FinishRun ==
    /\ phase = "collecting"
    /\ collected = DOMAIN futures
    /\ phase' = IF SuccessRateRaises(total_pairs, successful) THEN "raised"
                 ELSE "returned"
    /\ UNCHANGED <<catalog, batch_size, max_workers, disk, state_file,
                   completed_pairs, total_pairs, runs, futures, collected,
                   all_results, successful, failed, invocations, started, skipped,
                   ledger0, succeeded>>
    /\ UNCHANGED <<persisted0, marking, funnelVars, callVars>>

\* the process ends and a later one builds a new engine on the same directory
Restart ==
    /\ phase \in {"returned", "raised", "crashed"}
    /\ runs < MaxRuns
    /\ phase' = "idle"
    /\ completed_pairs' = {}
    /\ total_pairs' = 0
    /\ futures' = NoFutures
    /\ collected' = {}
    /\ all_results' = <<>>
    /\ successful' = 0
    /\ failed' = 0
    /\ invocations' = 0
    /\ started' = {}
    /\ skipped' = {}
    /\ ledger0' = {}
    /\ persisted0' = NoStateFile
    /\ UNCHANGED <<catalog, batch_size, max_workers, disk, state_file, runs,
                   succeeded>>
    /\ UNCHANGED <<marking, funnelVars, callVars>>

Next ==
    \/ StartRun
    \/ \E b \in DOMAIN futures : WorkerTakesBatch(b)
    \/ \E b \in DOMAIN futures : RunSingleDocking(b)
    \/ \E b \in DOMAIN futures, timedout \in BOOLEAN, returncode \in {0, 1},
          wrote \in BOOLEAN : ChildEnds(b, timedout, returncode, wrote)
    \/ \E b \in DOMAIN futures : InvocationRaises(b)
    \/ \E b \in DOMAIN futures, outcome \in SaveOutcomes : CollectBatch(b, outcome)
    \/ \E b \in DOMAIN futures : CrashDuringSave(b)
    \/ FinishRun
    \/ Restart

Spec == Init /\ [][Next]_vars

\* a project directory that holds the artifacts of some rows of the catalog
\* from earlier runs, and a new engine that has one run to make
TerminationInit ==
    /\ FunnelIdle
    /\ ParserIdle
    /\ FilterIdle
    /\ LoaderIdle
    /\ SetterIdle
    /\ catalog \in Catalogs
    /\ batch_size \in 1..MaxBatchSize
    /\ max_workers \in 1..MaxWorkers
    /\ disk \in {{OutputSdf(catalog[i]) : i \in done} : done \in SUBSET (1..Len(catalog))}
    /\ state_file = NoStateFile
    /\ completed_pairs = {}
    /\ total_pairs = 0
    /\ phase = "idle"
    /\ runs = MaxRuns - 1
    /\ futures = NoFutures
    /\ collected = {}
    /\ all_results = <<>>
    /\ successful = 0
    /\ failed = 0
    /\ invocations = 0
    /\ started = {}
    /\ skipped = {}
    /\ ledger0 = {}
    /\ succeeded = {}
    /\ persisted0 = NoStateFile
    /\ marking = NoMarking

\* one run of the Scheduler in a process that is not killed
TerminationNext ==
    \/ StartRun
    \/ \E b \in DOMAIN futures : WorkerTakesBatch(b)
    \/ \E b \in DOMAIN futures : RunSingleDocking(b)
    \/ \E b \in DOMAIN futures, timedout \in BOOLEAN, returncode \in {0, 1},
          wrote \in BOOLEAN : ChildEnds(b, timedout, returncode, wrote)
    \/ \E b \in DOMAIN futures : InvocationRaises(b)
    \/ \E b \in DOMAIN futures, outcome \in SaveOutcomes : CollectBatch(b, outcome)
    \/ FinishRun

\* subprocess.run comes back: the child has exited, the timeout has fired, or
\* the call raised
ChildIsOver ==
    \/ \E b \in DOMAIN futures, timedout \in BOOLEAN, returncode \in {0, 1},
          wrote \in BOOLEAN : ChildEnds(b, timedout, returncode, wrote)
    \/ \E b \in DOMAIN futures : InvocationRaises(b)

\* every pool thread and the main thread get to run, and no child process
\* outlives its timeout
TerminationSpec ==
    /\ TerminationInit
    /\ [][TerminationNext]_vars
    /\ WF_vars(\E b \in DOMAIN futures : WorkerTakesBatch(b))
    /\ WF_vars(\E b \in DOMAIN futures : RunSingleDocking(b))
    /\ WF_vars(ChildIsOver)
    /\ WF_vars(\E b \in DOMAIN futures, outcome \in SaveOutcomes :
                  CollectBatch(b, outcome))
    /\ WF_vars(FinishRun)

\* the Scheduler in a directory whose output artifacts can disappear between
\* two processes
LedgerNext ==
    \/ Next
    \/ \E path \in disk : ArtifactRemoved(path)

LedgerSpec == Init /\ [][LedgerNext]_vars

(***************************************************************************)
(* The Scheduler with the body of the as_completed loop taken statement by *)
(* statement, so that the steps of the pool threads fall between the       *)
(* statements of the main thread.                                          *)
(***************************************************************************)
\* batch_results = future.result(); all_results.extend(batch_results)
TakeBatchResults(b) ==
    /\ phase = "collecting"
    /\ marking = NoMarking
    /\ b \in DOMAIN futures
    /\ futures[b].st = "done"
    /\ b \notin collected
    /\ all_results' = ExtendResults(all_results, futures[b].results)
    /\ marking' = [batch |-> b, pos |-> 1, at |-> "test"]
    /\ UNCHANGED <<catalog, batch_size, max_workers, disk, state_file,
                   completed_pairs, total_pairs, phase, runs, futures, collected,
                   successful, failed, invocations, started, skipped, ledger0,
                   succeeded>>
    /\ UNCHANGED <<persisted0, funnelVars, callVars>>

\* "if result and result['status'] == 'success': successful += 1" or
\* "elif result: failed += 1" for the next result of the batch
CountResult ==
    /\ marking.at = "test"
    /\ marking.pos <= Len(futures[marking.batch].results)
    /\ IF futures[marking.batch].results[marking.pos].status = "success"
       THEN /\ successful' = successful + 1
            /\ marking' = [marking EXCEPT !.at = "add"]
            /\ UNCHANGED failed
       ELSE /\ failed' = failed + 1
            /\ marking' = [marking EXCEPT !.pos = @ + 1]
            /\ UNCHANGED successful
    /\ UNCHANGED <<catalog, batch_size, max_workers, disk, state_file,
                   completed_pairs, total_pairs, phase, runs, futures, collected,
                   all_results, invocations, started, skipped, ledger0, succeeded>>
    /\ UNCHANGED <<persisted0, funnelVars, callVars>>

\* self.completed_pairs.add(result['pair_id'])
AddCompletedPair ==
    /\ marking.at = "add"
    /\ completed_pairs' =
          completed_pairs \cup {futures[marking.batch].results[marking.pos].pair_id}
    /\ marking' = [marking EXCEPT !.pos = @ + 1, !.at = "test"]
    /\ UNCHANGED <<catalog, batch_size, max_workers, disk, state_file, total_pairs,
                   phase, runs, futures, collected, all_results, successful, failed,
                   invocations, started, skipped, ledger0, succeeded>>
    /\ UNCHANGED <<persisted0, funnelVars, callVars>>

\* self.save_docking_state(all_results) after the counting loop, and the
\* "except Exception" branch when it raises
SaveProgress(outcome) ==
    /\ marking.at = "test"
    /\ marking.pos > Len(futures[marking.batch].results)
    /\ state_file' = SaveDockingState(state_file, completed_pairs, all_results, outcome)
    /\ failed' = failed + (IF outcome = "ok" THEN 0 ELSE Len(BatchRows(marking.batch)))
    /\ collected' = collected \cup {marking.batch}
    /\ marking' = NoMarking
    /\ UNCHANGED <<catalog, batch_size, max_workers, disk, completed_pairs,
                   total_pairs, phase, runs, futures, all_results, successful,
                   invocations, started, skipped, ledger0, succeeded>>
    /\ UNCHANGED <<persisted0, funnelVars, callVars>>

ThreadNext ==
    \/ StartRun
    \/ \E b \in DOMAIN futures : WorkerTakesBatch(b)
    \/ \E b \in DOMAIN futures : RunSingleDocking(b)
    \/ \E b \in DOMAIN futures, timedout \in BOOLEAN, returncode \in {0, 1},
          wrote \in BOOLEAN : ChildEnds(b, timedout, returncode, wrote)
    \/ \E b \in DOMAIN futures : InvocationRaises(b)
    \/ \E b \in DOMAIN futures : TakeBatchResults(b)
    \/ CountResult
    \/ AddCompletedPair
    \/ \E outcome \in SaveOutcomes : SaveProgress(outcome)
    \/ FinishRun
    \/ Restart

ThreadSpec == Init /\ [][ThreadNext]_vars

(***************************************************************************)
(* Funnel Controller: TieredCNNWorkflow and run_tiered_workflow.           *)
(* Scores are in hundredths (0.5 is 50); None is written NoLimit.          *)
(***************************************************************************)
MaxFunnelItems == 2
MaxStages == 3

\* character order of the identifiers (ASCII: '_' sorts before the letters)
CharRank(c) ==
    CASE c = "_" -> 0 [] c = "a" -> 1 [] c = "b" -> 2 [] c = "s" -> 3
      [] c = "x" -> 4 [] c = "y" -> 5 [] c = "z" -> 6

\* Python string comparison s < t
RECURSIVE StrLess(_, _)
StrLess(s, t) ==
    IF t = <<>> THEN FALSE
    ELSE IF s = <<>> THEN TRUE
    ELSE IF Head(s) = Head(t) THEN StrLess(Tail(s), Tail(t))
    ELSE CharRank(Head(s)) < CharRank(Head(t))

\* results_df: one row per pose score of a successful result, named by
\* <<position of the result, position of the score>>
ResultsDf(prev) ==
    UNION { {<<i, j>> : j \in 1..Len(prev[i].scores)} :
            i \in {k \in 1..Len(prev) : prev[k].status = "success"} }

CnnScore(prev, ij) == prev[ij[1]].scores[ij[2]]

SetMax(S) == CHOOSE x \in S : \A y \in S : y <= x

\* the scores of a set of results_df rows in ascending order
RECURSIVE SortedScores(_, _)
SortedScores(prev, rows) ==
    IF rows = {} THEN <<>>
    ELSE LET m == CHOOSE r \in rows : \A q \in rows : CnnScore(prev, r) <= CnnScore(prev, q)
         IN <<CnnScore(prev, m)>> \o SortedScores(prev, rows \ {m})

\* 100 * Series.quantile(1 - top_percentage), linear interpolation, for
\* top_percentage = pct / 100
Quantile100(sorted, pct) ==
    LET n == Len(sorted)
        pos100 == (n - 1) * (100 - pct)
        lo == pos100 \div 100
        frac == pos100 % 100
        hi == IF frac > 0 THEN lo + 1 ELSE lo
    IN sorted[lo + 1] * 100 + (sorted[hi + 1] - sorted[lo + 1]) * frac

ReceptorRows(prev, receptor) ==
    {ij \in ResultsDf(prev) : prev[ij[1]].receptor = receptor}

\* groupby('ligand')['cnn_score'].max() of the receptor's rows
LigandBest(prev, receptor, ligand) ==
    SetMax({CnnScore(prev, ij) :
              ij \in {r \in ReceptorRows(prev, receptor) : prev[r[1]].ligand = ligand}})

ReceptorLigands(prev, receptor) ==
    {prev[ij[1]].ligand : ij \in ReceptorRows(prev, receptor)}

\* .nlargest(n).index: the groups come sorted by ligand name, ties keep the first
TopLigands(prev, receptor, n) ==
    LET L == ReceptorLigands(prev, receptor)
        Before(l1, l2) ==
            \/ LigandBest(prev, receptor, l1) > LigandBest(prev, receptor, l2)
            \/ /\ LigandBest(prev, receptor, l1) = LigandBest(prev, receptor, l2)
               /\ StrLess(l1, l2)
    IN {l \in L : Cardinality({m \in L : Before(m, l)}) < n}

\* the body of the loop over pairlist_df in filter_ligands_for_stage
Survives(cfg, prev, row) ==
    LET pair_scores == {ij \in ResultsDf(prev) :
                          /\ prev[ij[1]].receptor = row.receptor
                          /\ prev[ij[1]].ligand = row.ligand
                          /\ prev[ij[1]].site_id = row.site_id}
        max_cnn_score == SetMax({CnnScore(prev, ij) : ij \in pair_scores})
    IN /\ pair_scores # {}
       /\ max_cnn_score >= cfg.cnn_score_threshold
       /\ (cfg.top_percentage # NoLimit =>
             max_cnn_score * 100 >=
                Quantile100(SortedScores(prev, ReceptorRows(prev, row.receptor)),
                            cfg.top_percentage))
       /\ ((/\ cfg.max_ligands_per_receptor # NoLimit
            /\ Cardinality(ReceptorLigands(prev, row.receptor))
                 > cfg.max_ligands_per_receptor) =>
             row.ligand \in TopLigands(prev, row.receptor,
                                        cfg.max_ligands_per_receptor))

\* a filter that has no previous results and takes that for "nothing passed"
FilterWithoutFallback(stage, cfg, previous, pairlist) ==
    IF stage = "A" THEN pairlist
    ELSE IF previous.none \/ previous.results = <<>> THEN <<>>
    ELSE IF ResultsDf(previous.results) = {} THEN pairlist
    ELSE SelectSeq(pairlist, LAMBDA row : Survives(cfg, previous.results, row))

\* filter_ligands_for_stage after "stage_config = self.get_stage_config(stage)"
FilterWithConfig(stage, cfg, previous, pairlist) ==
    IF stage = "A" THEN pairlist
    ELSE IF previous.none \/ previous.results = <<>> THEN pairlist
    ELSE IF ResultsDf(previous.results) = {} THEN pairlist
    ELSE SelectSeq(pairlist, LAMBDA row : Survives(cfg, previous.results, row))

\* filter_ligands_for_stage
FilterLigandsForStage(stage, previous, pairlist) ==
    FilterWithConfig(stage, StageConfig(stage), previous, pairlist)

\* run_stage: the filtered input ([] and the filtered frame are both empty)
RunStage(stage, pairlist, previous) == FilterLigandsForStage(stage, previous, pairlist)

(***************************************************************************)
(* run_parallel_docking as one step of the Funnel Controller.  The funnel  *)
(* catalogs have pairwise different pair ids, so the resume check of a row *)
(* depends only on the Ledger as loaded when the run starts.               *)
(***************************************************************************)
FunnelRowPool ==
    << Row(<<"a">>, <<"s">>, <<"x">>),
       Row(<<"a">>, <<"s">>, <<"y">>),
       Row(<<"a">>, <<"s">>, <<"z">>),
       Row(<<"b">>, <<"s">>, <<"x">>) >>

\* the catalogs of the funnel runs: the empty catalog and the first
\* MaxFunnelItems rows of the pool
FunnelCatalogs ==
    {<<>>, SubSeq(FunnelRowPool, 1, Min(MaxFunnelItems, Len(FunnelRowPool)))}

StageLists == UNION {[1..n -> StageNames] : n \in 1..MaxStages}

\* pose scores parse_gnina_output can return for an artifact
ScoreLists == {<<>>, <<60>>, <<40, 90>>}

\* how an invocation can end: its status, the parsed scores, and whether the
\* output artifact exists afterwards.  The filter reads a failure only as
\* "status is not success", so one failure that leaves an artifact and one
\* that leaves none stand for the errors and the timeouts.
StageOutcomes ==
    [status : {"success"}, scores : ScoreLists, wrote : {TRUE}]
      \cup [status : {"error"}, scores : {<<>>}, wrote : {TRUE}]
      \cup [status : {"timeout"}, scores : {<<>>}, wrote : {FALSE}]

\* positions of the rows run_single_docking does not skip
Dispatched(input, cp) == {i \in 1..Len(input) : PairId(input[i]) \notin cp}

RECURSIVE StageResultsFrom(_, _, _, _, _)
StageResultsFrom(input, cp, oc, stage, i) ==
    IF i > Len(input) THEN <<>>
    ELSE (IF i \in Dispatched(input, cp)
          THEN << [status |-> oc[i].status, receptor |-> input[i].receptor,
                   ligand |-> input[i].ligand, site_id |-> input[i].site_id,
                   pair_id |-> PairId(input[i]), scores |-> oc[i].scores,
                   stage |-> stage] >>
          ELSE <<>>)
         \o StageResultsFrom(input, cp, oc, stage, i + 1)

\* the list run_parallel_docking returns, each result tagged with the stage
StageResults(input, cp, oc, stage) == StageResultsFrom(input, cp, oc, stage, 1)

FunnelInit ==
    /\ ParserIdle
    /\ FilterIdle
    /\ LoaderIdle
    /\ SetterIdle
    /\ pairlist_df \in FunnelCatalogs
    /\ stages \in StageLists
    /\ stage_ptr = 1
    /\ previous_results = NoPrevious
    /\ workflow_results = <<>>
    /\ wphase = "loop"
    /\ stage_inputs = <<>>
    /\ stage_outputs = <<>>
    /\ prev_used = <<>>
    /\ gpu_probe \in BOOLEAN
    /\ config = NewConfig(gpu_probe)
    /\ stage_commands = <<>>
    /\ disk = {}
    /\ completed_pairs = {}
    /\ catalog = <<>>
    /\ batch_size = 1
    /\ max_workers = 1
    /\ state_file = NoStateFile
    /\ total_pairs = 0
    /\ phase = "idle"
    /\ runs = 0
    /\ futures = NoFutures
    /\ collected = {}
    /\ all_results = <<>>
    /\ successful = 0
    /\ failed = 0
    /\ invocations = 0
    /\ started = {}
    /\ skipped = {}
    /\ ledger0 = {}
    /\ succeeded = {}
    /\ persisted0 = NoStateFile
    /\ marking = NoMarking

\* one iteration of the loop of run_tiered_workflow whose stage input is empty
StageContinue ==
    /\ wphase = "loop"
    /\ stage_ptr <= Len(stages)
    /\ LET input == RunStage(stages[stage_ptr], pairlist_df, previous_results)
       IN /\ Len(input) = 0
          /\ stage_inputs' = Append(stage_inputs, input)
          /\ stage_outputs' = Append(stage_outputs, <<>>)
          /\ prev_used' = Append(prev_used, previous_results)
          /\ stage_commands' = Append(stage_commands, {})
    /\ stage_ptr' = stage_ptr + 1
    /\ UNCHANGED <<pairlist_df, stages, previous_results, workflow_results, wphase,
                   disk, completed_pairs, config, gpu_probe>>
    /\ UNCHANGED <<runVars, callVars>>

\* one iteration of the loop of run_tiered_workflow that runs the Scheduler
StageDocking ==
    /\ wphase = "loop"
    /\ stage_ptr <= Len(stages)
    /\ LET stage == stages[stage_ptr]
           input == RunStage(stage, pairlist_df, previous_results)
           cp == LoadCompletedPairs(completed_pairs)
       IN /\ Len(input) > 0
          /\ config' = SetTieredStage(config, StageKey(stage))
          /\ stage_commands' =
                Append(stage_commands,
                       {GetGninaCommandBase(config') : i \in Dispatched(input, cp)})
          /\ \E oc \in [Dispatched(input, cp) -> StageOutcomes] :
               LET stage_results == StageResults(input, cp, oc, stage)
               IN /\ disk' = disk \cup {OutputSdf(input[i]) :
                                          i \in {j \in Dispatched(input, cp) : oc[j].wrote}}
                  /\ completed_pairs' = MarkSuccess(cp, stage_results)
                  /\ workflow_results' = workflow_results \o stage_results
                  /\ previous_results' = [none |-> FALSE, results |-> stage_results]
                  /\ stage_outputs' = Append(stage_outputs, stage_results)
          /\ stage_inputs' = Append(stage_inputs, input)
          /\ prev_used' = Append(prev_used, previous_results)
    /\ stage_ptr' = stage_ptr + 1
    /\ UNCHANGED <<pairlist_df, stages, wphase, gpu_probe>>
    /\ UNCHANGED <<runVars, callVars>>

\* the final analysis of run_tiered_workflow: analyze_stage_progression divides
\* by the number of results
WorkflowFinish ==
    /\ wphase = "loop"
    /\ stage_ptr > Len(stages)
    /\ wphase' = IF Len(workflow_results) = 0 THEN "raised" ELSE "returned"
    /\ UNCHANGED <<pairlist_df, stages, stage_ptr, previous_results,
                   workflow_results, stage_inputs, stage_outputs, prev_used, disk,
                   completed_pairs, config, gpu_probe, stage_commands>>
    /\ UNCHANGED <<runVars, callVars>>

FunnelNext ==
    \/ StageContinue
    \/ StageDocking
    \/ WorkflowFinish

FunnelSpec == FunnelInit /\ [][FunnelNext]_vars

(***************************************************************************)
(* The Output Parser on its own: one parse_gnina_output call on every      *)
(* output file and log file of the bounded sets.                           *)
(***************************************************************************)
\* no Scheduler run is modelled
SchedulerIdle ==
    /\ catalog = <<>>
    /\ batch_size = 1
    /\ max_workers = 1
    /\ disk = {}
    /\ state_file = NoStateFile
    /\ completed_pairs = {}
    /\ total_pairs = 0
    /\ phase = "idle"
    /\ runs = 0
    /\ futures = NoFutures
    /\ collected = {}
    /\ all_results = <<>>
    /\ successful = 0
    /\ failed = 0
    /\ invocations = 0
    /\ started = {}
    /\ skipped = {}
    /\ ledger0 = {}
    /\ succeeded = {}
    /\ persisted0 = NoStateFile
    /\ marking = NoMarking

ParserInit ==
    /\ SchedulerIdle
    /\ FunnelIdle
    /\ FilterIdle
    /\ LoaderIdle
    /\ SetterIdle
    /\ output_sdf \in SdfFiles
    /\ log_file \in LogFiles
    /\ parsed = NotParsed

ParseCall ==
    /\ ~parsed.called
    /\ parsed' = ParseGninaOutput(output_sdf, log_file)
    /\ UNCHANGED <<output_sdf, log_file>>
    /\ UNCHANGED <<runVars, disk, completed_pairs, funnelVars, filterVars, loaderVars, setterVars>>

ParserNext == ParseCall

ParserSpec == ParserInit /\ [][ParserNext]_vars

(***************************************************************************)
(* One run_single_docking call with the parse of its artifact, and what    *)
(* the main thread does with the result.  The artifact the child leaves is *)
(* output_sdf: it exists unless it is the missing file.                    *)
(***************************************************************************)
\* the row of the call
InvokedRow == RowPool[1]

\* a success that is withdrawn when the parse yields no score
ResultDemotedWithoutScores(result, scores) ==
    [f \in DOMAIN result \cup {"scores"} |->
       CASE f = "scores" -> scores
         [] f = "status" -> (IF scores = <<>> THEN "error" ELSE result[f])
         [] OTHER -> result[f]]

\* the success dict of run_single_docking: the result with 'scores' added
ResultWithScores(result, scores) ==
    [f \in DOMAIN result \cup {"scores"} |->
       IF f = "scores" THEN scores ELSE result[f]]

\* run_single_docking from the return of subprocess.run on
SingleDockingResult(row, timedout, returncode, sdf, log) ==
    LET status == InvocationStatus(timedout, returncode, sdf.kind # "missing")
        p == ParseGninaOutput(sdf, log)
    IN IF status = "success"
       THEN IF p.raised
            THEN DockingResult(row, "error", ErrorText("error", TRUE))
            ELSE ResultWithScores(DockingResult(row, "success",
                                                ErrorText("success", FALSE)),
                                  p.scores)
       ELSE DockingResult(row, status, ErrorText(status, FALSE))

InvocationInit ==
    /\ SchedulerIdle
    /\ FunnelIdle
    /\ FilterIdle
    /\ LoaderIdle
    /\ SetterIdle
    /\ output_sdf \in SdfFiles
    /\ log_file \in LogFiles
    /\ parsed = NotParsed

\* the child ends and run_single_docking returns its result to the batch
SingleDockingEnds(timedout, returncode) ==
    /\ all_results = <<>>
    /\ all_results' = <<AppendBatchResult(<<>>,
                           SingleDockingResult(InvokedRow, timedout, returncode,
                                               output_sdf, log_file), 0)[1]>>
    /\ parsed' = IF InvocationStatus(timedout, returncode,
                                     output_sdf.kind # "missing") = "success"
                  THEN ParseGninaOutput(output_sdf, log_file) ELSE parsed
    /\ UNCHANGED <<catalog, batch_size, max_workers, disk, state_file,
                   completed_pairs, total_pairs, phase, runs, futures, collected,
                   successful, failed, invocations, started, skipped, ledger0,
                   succeeded, persisted0, marking>>
    /\ UNCHANGED <<output_sdf, log_file>>
    /\ UNCHANGED <<funnelVars, filterVars, loaderVars, setterVars>>

\* the main thread counts the result and marks a success
CountSingleResult ==
    /\ all_results # <<>>
    /\ successful + failed = 0
    /\ successful' = Cardinality(SuccessesOf(all_results))
    /\ failed' = Len(all_results) - successful'
    /\ completed_pairs' = MarkSuccess(completed_pairs, all_results)
    /\ UNCHANGED <<catalog, batch_size, max_workers, disk, state_file, total_pairs,
                   phase, runs, futures, collected, all_results, invocations,
                   started, skipped, ledger0, succeeded, persisted0, marking>>
    /\ UNCHANGED <<funnelVars, callVars>>

InvocationNext ==
    \/ \E timedout \in BOOLEAN, returncode \in {0, 1} :
          SingleDockingEnds(timedout, returncode)
    \/ CountSingleResult

InvocationSpec == InvocationInit /\ [][InvocationNext]_vars

(***************************************************************************)
(* The filter on its own: one filter_ligands_for_stage call on every       *)
(* catalog, list of previous results and stage table entry of the bounded  *)
(* sets.                                                                   *)
(***************************************************************************)
MaxFilterItems == 3

FilterCatalogs ==
    {SubSeq(FunnelRowPool, 1, n) : n \in 0..Min(MaxFilterItems, Len(FunnelRowPool))}

\* the score lists of the previous results, at most MaxPoses scores each
FilterScoreLists ==
    {sc \in {<<>>, <<60>>, <<95, 20>>, <<93, 20>>, <<50, 20>>, <<80, 75, 30>>} :
        Len(sc) <= MaxPoses}

\* how the previous stage ended for a row it ran
FilterOutcomes ==
    [status : {"success"}, scores : FilterScoreLists]
      \cup [status : {"error"}, scores : {<<>>}]

\* the success results of rows with the given score lists
RECURSIVE ScoredResults(_, _)
ScoredResults(rows, scorelists) ==
    IF rows = <<>> THEN <<>>
    ELSE << [status |-> "success", receptor |-> Head(rows).receptor,
             ligand |-> Head(rows).ligand, site_id |-> Head(rows).site_id,
             pair_id |-> PairId(Head(rows)), scores |-> Head(scorelists),
             stage |-> "A"] >>
         \o ScoredResults(Tail(rows), Tail(scorelists))

\* six items with one pose each: 0.9, 0.8, 0.75, 0.6, 0.55, 0.3
SixItems ==
    << Row(<<"a">>, <<"s">>, <<"x">>), Row(<<"a">>, <<"s">>, <<"y">>),
       Row(<<"a">>, <<"s">>, <<"z">>), Row(<<"b">>, <<"s">>, <<"x">>),
       Row(<<"b">>, <<"s">>, <<"y">>), Row(<<"b">>, <<"s">>, <<"z">>) >>

SixScores == << <<90>>, <<80>>, <<75>>, <<60>>, <<55>>, <<30>> >>

\* one receptor with five ligands, one pose each: 0.95, 0.9, 0.85, 0.6, 0.5
FiveItems ==
    << Row(<<"a">>, <<"s">>, <<"x">>), Row(<<"a">>, <<"s">>, <<"y">>),
       Row(<<"a">>, <<"s">>, <<"z">>), Row(<<"a">>, <<"s">>, <<"x", "x">>),
       Row(<<"a">>, <<"s">>, <<"x", "y">>) >>

FiveScores == << <<95>>, <<90>>, <<85>>, <<60>>, <<50>> >>

\* one receptor with three ligands and eight poses each (num_modes of stage
\* A is 8): best scores 0.95, 0.93, 0.5, every other pose 0.2
EightPoseItems == SubSeq(FunnelRowPool, 1, 3)

EightPoseScores ==
    << <<95, 20, 20, 20, 20, 20, 20, 20>>, <<93, 20, 20, 20, 20, 20, 20, 20>>,
       <<50, 20, 20, 20, 20, 20, 20, 20>> >>

\* one receptor with seven ligands, one pose each, all scores different: the
\* two best are the fifth (0.99) and the second (0.95)
SevenItems ==
    FiveItems \o << Row(<<"a">>, <<"s">>, <<"x", "z">>), Row(<<"a">>, <<"s">>, <<"y", "x">>) >>

SevenScores == << <<60>>, <<95>>, <<55>>, <<70>>, <<99>>, <<65>>, <<50>> >>

\* one receptor with three ligands listed z, y, x, one pose each, all 0.9
TiedItems ==
    << Row(<<"a">>, <<"s">>, <<"z">>), Row(<<"a">>, <<"s">>, <<"y">>),
       Row(<<"a">>, <<"s">>, <<"x">>) >>

TiedScores == << <<90>>, <<90>>, <<90>> >>

\* the arguments pairlist_df and previous_results of the call
FilterInputs ==
    { [pairlist |-> c, previous |-> NoPrevious] : c \in FilterCatalogs }
      \cup UNION { UNION { { [pairlist |-> c,
                              previous |-> [none |-> FALSE,
                                            results |-> StageResults(c, cp, oc, "A")]] :
                              oc \in [Dispatched(c, cp) -> FilterOutcomes] } :
                           cp \in SUBSET {PairId(c[i]) : i \in 1..Len(c)} } :
                   c \in FilterCatalogs }
      \cup { [pairlist |-> SixItems,
              previous |-> [none |-> FALSE, results |-> ScoredResults(SixItems, SixScores)]],
             [pairlist |-> FiveItems,
              previous |-> [none |-> FALSE, results |-> ScoredResults(FiveItems, FiveScores)]],
             [pairlist |-> EightPoseItems,
              previous |-> [none |-> FALSE,
                            results |-> ScoredResults(EightPoseItems, EightPoseScores)]],
             [pairlist |-> SevenItems,
              previous |-> [none |-> FALSE,
                            results |-> ScoredResults(SevenItems, SevenScores)]],
             [pairlist |-> TiedItems,
              previous |-> [none |-> FALSE,
                            results |-> ScoredResults(TiedItems, TiedScores)]] }

\* a stage table entry with the score threshold 0.5 as its only criterion
ThresholdOnly ==
    [StageConfig("B") EXCEPT !.cnn_score_threshold = 50,
                             !.top_percentage = NoLimit,
                             !.max_ligands_per_receptor = NoLimit]

\* a stage table entry that adds top_percentage = 0.2 to it
TopFifth == [ThresholdOnly EXCEPT !.top_percentage = 20]

\* a stage table entry that adds max_ligands_per_receptor = 2 to the threshold
CapTwo == [ThresholdOnly EXCEPT !.max_ligands_per_receptor = 2]

\* the argument stage with the entry self.stages holds for it
FilterStages ==
    { [stage |-> st, cfg |-> StageConfig(st)] : st \in StageNames }
      \cup { [stage |-> "B", cfg |-> ThresholdOnly], [stage |-> "B", cfg |-> TopFifth],
             [stage |-> "B", cfg |-> CapTwo] }

FilterInit ==
    /\ SchedulerIdle
    /\ ParserIdle
    /\ LoaderIdle
    /\ SetterIdle
    /\ \E in \in FilterInputs, sc \in FilterStages :
          /\ pairlist_df = in.pairlist
          /\ previous_results = in.previous
          /\ stages = <<sc.stage>>
          /\ stage_config = sc.cfg
    /\ filtered = NotFiltered
    /\ stage_ptr = 1
    /\ workflow_results = <<>>
    /\ wphase = "idle"
    /\ stage_inputs = <<>>
    /\ stage_outputs = <<>>
    /\ prev_used = <<>>
    /\ gpu_probe = FALSE
    /\ config = NewConfig(FALSE)
    /\ stage_commands = <<>>

FilterCall ==
    /\ ~filtered.called
    /\ filtered' = [called |-> TRUE,
                    rows |-> FilterWithConfig(stages[1], stage_config,
                                              previous_results, pairlist_df)]
    /\ UNCHANGED stage_config
    /\ UNCHANGED <<runVars, disk, completed_pairs, funnelVars, parserVars, loaderVars, setterVars>>

FilterNext == FilterCall

FilterSpec == FilterInit /\ [][FilterNext]_vars

(***************************************************************************)
(* A catalog load and the dispatch that follows it: the caller of           *)
(* load_and_validate_pairlist goes on to the Scheduler unless it got None,  *)
(* run_batch_docking goes on to its loop unless read_pairlist gave [].      *)
(***************************************************************************)
LoaderInit ==
    /\ SchedulerIdle
    /\ FunnelIdle
    /\ ParserIdle
    /\ FilterIdle
    /\ SetterIdle
    /\ pairlist_csv \in CsvFiles
    /\ loader \in {"pandas", "hpc"}
    /\ loaded = NotLoaded
    /\ dispatched = 0

LoadCall ==
    /\ ~loaded.called
    /\ loaded' = IF loader = "pandas" THEN LoadAndValidatePairlist(pairlist_csv)
                  ELSE ReadPairlist(pairlist_csv)
    /\ UNCHANGED <<pairlist_csv, loader, dispatched>>
    /\ UNCHANGED <<runVars, disk, completed_pairs, funnelVars, parserVars, filterVars, setterVars>>

\* the run that follows a load starts the child process of the next row
DispatchLoadedRow ==
    /\ loaded.called
    /\ ~loaded.none
    /\ dispatched < Len(loaded.rows)
    /\ dispatched' = dispatched + 1
    /\ UNCHANGED <<pairlist_csv, loader, loaded>>
    /\ UNCHANGED <<runVars, disk, completed_pairs, funnelVars, parserVars, filterVars, setterVars>>

LoaderNext ==
    \/ LoadCall
    \/ DispatchLoadedRow

LoaderSpec == LoaderInit /\ [][LoaderNext]_vars

(***************************************************************************)
(* A configuration object on its own: GNINADockingConfig() with either     *)
(* answer of the probe, then set_* calls in any order and number up to     *)
(* MaxCalls, and build_gnina_command at any point.                         *)
(***************************************************************************)
MaxCalls == 3

\* the Funnel Controller is not running
ControllerIdle ==
    /\ pairlist_df = <<>>
    /\ stages = <<>>
    /\ stage_ptr = 1
    /\ previous_results = NoPrevious
    /\ workflow_results = <<>>
    /\ wphase = "idle"
    /\ stage_inputs = <<>>
    /\ stage_outputs = <<>>
    /\ prev_used = <<>>
    /\ stage_commands = <<>>

ConfigInit ==
    /\ SchedulerIdle
    /\ ControllerIdle
    /\ ParserIdle
    /\ FilterIdle
    /\ LoaderIdle
    /\ SetterIdle
    /\ gpu_probe \in BOOLEAN
    /\ config = NewConfig(gpu_probe)

\* what a set_* call leaves alone
SetterFrame ==
    /\ UNCHANGED <<runVars, disk, completed_pairs, parserVars, filterVars, loaderVars>>
    /\ UNCHANGED <<pairlist_df, stages, stage_ptr, previous_results, workflow_results,
                   wphase, stage_inputs, stage_outputs, prev_used, gpu_probe,
                   stage_commands>>
    /\ UNCHANGED hpcVars

SetGpuAccelerationCall(use_gpu, gpu_device) ==
    /\ calls < MaxCalls
    /\ calls' = calls + 1
    /\ config' = SetGpuAcceleration(config, use_gpu, gpu_device)
    /\ value_error' = FALSE
    /\ UNCHANGED command
    /\ SetterFrame

SetCnnModeCall(mode) ==
    /\ calls < MaxCalls
    /\ calls' = calls + 1
    /\ IF mode \in CnnModes
       THEN config' = SetCnnMode(config, mode) /\ value_error' = FALSE
       ELSE config' = config /\ value_error' = TRUE
    /\ UNCHANGED command
    /\ SetterFrame

SetPerformanceParamsCall(exhaustiveness, num_modes, cpu_cores) ==
    /\ calls < MaxCalls
    /\ calls' = calls + 1
    /\ config' = SetPerformanceParams(config, exhaustiveness, num_modes, cpu_cores)
    /\ value_error' = FALSE
    /\ UNCHANGED command
    /\ SetterFrame

SetTieredStageCall(stage) ==
    /\ calls < MaxCalls
    /\ calls' = calls + 1
    /\ IF stage \in TieredStages
       THEN config' = SetTieredStage(config, stage) /\ value_error' = FALSE
       ELSE config' = config /\ value_error' = TRUE
    /\ UNCHANGED command
    /\ SetterFrame

\* build_gnina_command with the configuration as it is now
BuildCommandCall(flexible_residues) ==
    /\ command' = BuildGninaCommand(config, flexible_residues)
    /\ UNCHANGED <<config, calls, value_error>>
    /\ SetterFrame

ConfigNext ==
    \/ \E use_gpu \in BOOLEAN, gpu_device \in {0, 1} :
          SetGpuAccelerationCall(use_gpu, gpu_device)
    \/ \E mode \in CnnModes \cup {"fast"} : SetCnnModeCall(mode)
    \/ \E exhaustiveness \in {Unset, 48}, num_modes \in {Unset, 8},
          cpu_cores \in {Unset, 8} :
          SetPerformanceParamsCall(exhaustiveness, num_modes, cpu_cores)
    \/ \E stage \in TieredStages \cup {"stage_d"} : SetTieredStageCall(stage)
    \/ \E flexible_residues \in BOOLEAN : BuildCommandCall(flexible_residues)

ConfigSpec == ConfigInit /\ [][ConfigNext]_vars

(***************************************************************************)
(* run_standard_docking of the HPC variant: a configuration object and an  *)
(* engine are made, set_cnn_mode is called, and the engine builds one      *)
(* command line per pair.                                                  *)
(***************************************************************************)
HpcInit ==
    /\ SchedulerIdle
    /\ ControllerIdle
    /\ ParserIdle
    /\ FilterIdle
    /\ LoaderIdle
    /\ command = <<>>
    /\ calls = 0
    /\ value_error = FALSE
    /\ use_cpu_mode \in BOOLEAN
    /\ gpu_probe \in BOOLEAN
    /\ cnn_mode \in CnnModes \cup {"fast"}
    /\ config = HpcNewConfig(use_cpu_mode, gpu_probe)
    /\ engine_config = HpcNewConfig(use_cpu_mode, gpu_probe)
    /\ pairs \in Catalogs
    /\ pair_idx = 0

\* what a step of run_standard_docking leaves alone
HpcFrame ==
    /\ UNCHANGED <<runVars, disk, completed_pairs, parserVars, filterVars, loaderVars>>
    /\ UNCHANGED <<pairlist_df, stages, stage_ptr, previous_results, workflow_results,
                   wphase, stage_inputs, stage_outputs, prev_used, gpu_probe,
                   stage_commands>>
    /\ UNCHANGED <<engine_config, use_cpu_mode, cnn_mode, pairs>>

\* config.set_cnn_mode(cnn_mode) on the configuration object of
\* run_standard_docking
HpcSetCnnModeCall ==
    /\ calls = 0
    /\ calls' = 1
    /\ IF cnn_mode \in CnnModes
       THEN config' = SetCnnMode(config, cnn_mode) /\ value_error' = FALSE
       ELSE config' = config /\ value_error' = TRUE
    /\ UNCHANGED <<command, pair_idx>>
    /\ HpcFrame

\* one iteration of the loop of run_batch_docking: the engine builds the
\* command of the next pair from its own configuration
HpcBuildCommandCall ==
    /\ calls = 1
    /\ ~value_error
    /\ pair_idx < Len(pairs)
    /\ pair_idx' = pair_idx + 1
    /\ command' = HpcBuildGninaCommand(engine_config, pairs[pair_idx'])
    /\ UNCHANGED <<config, calls, value_error>>
    /\ HpcFrame

HpcNext ==
    \/ HpcSetCnnModeCall
    \/ HpcBuildCommandCall

HpcSpec == HpcInit /\ [][HpcNext]_vars

(***************************************************************************)
(* Properties of the Scheduler (checked under Spec).                       *)
(***************************************************************************)
KeysUnique ==
    \A i, j \in 1..Len(catalog) : Key(catalog[i]) = Key(catalog[j]) => i = j

PairIdsUnique ==
    \A i, j \in 1..Len(catalog) : PairId(catalog[i]) = PairId(catalog[j]) => i = j

\* the catalog positions whose key the Ledger listed when the run started
InLedgerAtStart == {i \in 1..Len(catalog) : PairId(catalog[i]) \in ledger0}

CatalogIndex(k) == CHOOSE i \in 1..Len(catalog) : Key(catalog[i]) = k

ResultsFor(k) == {i \in 1..Len(all_results) : ResultKey(all_results[i]) = k}

TerminalStatus == {"success", "error", "timeout"}

\* C1: for a catalog of N items with unique keys, a run that follows a prior run
\* and starts with a Ledger listing a strict subset S of the keys starts exactly
\* N - |S| child processes: one per item outside S, none for an item in S.
C1_ResumeCorrectness ==
    (/\ phase = "returned"
     /\ runs >= 2
     /\ KeysUnique
     /\ Cardinality(InLedgerAtStart) < Len(catalog))
    => /\ invocations = Len(catalog) - Cardinality(InLedgerAtStart)
       /\ started = {Key(catalog[i]) : i \in (1..Len(catalog)) \ InLedgerAtStart}

\* C2: a WorkItem is treated as completed only if some invocation of it ended
\* with status success (stated for the catalogs whose pair ids are pairwise
\* different, where a pair id in the completed set names one item).
C2_LedgerOnlySuccesses ==
    PairIdsUnique
    => \A i \in 1..Len(catalog) :
          PairId(catalog[i]) \in completed_pairs => Key(catalog[i]) \in succeeded

\* C3: a run that starts with a Ledger listing the key of every catalog item
\* starts no child process.
C3_IdempotentDispatch ==
    (/\ phase \in {"collecting", "returned"}
     /\ InLedgerAtStart = 1..Len(catalog))
    => (invocations = 0 /\ InFlight = {} /\ started = {})

\* C3 witness: a run over a non-empty catalog has returned with every item skipped.
C3_Witness ==
    /\ phase = "returned"
    /\ Len(catalog) > 0
    /\ InLedgerAtStart = 1..Len(catalog)
    /\ skipped = CatalogKeys
    /\ invocations = 0

\* C4: every item skipped because the Ledger lists it appears in the returned
\* list as a success result, so the list has one entry per catalog item.
C4_SkippedAppearAsSuccess ==
    phase = "returned"
    => /\ \A k \in skipped :
            \E i \in ResultsFor(k) : all_results[i].status = "success"
       /\ Len(all_results) = Len(catalog)

\* C5: every item whose child process was started in the run has exactly one
\* terminal result in the returned list.
C5_ExactlyOneResult ==
    phase = "returned"
    => \A k \in started :
          /\ Cardinality(ResultsFor(k)) = 1
          /\ \A i \in ResultsFor(k) : all_results[i].status \in TerminalStatus

\* C5 witness: a run with two started items has returned, one of them failed
\* and the state-file write after a batch failed.
C5_Witness ==
    /\ phase = "returned"
    /\ Cardinality(started) = 2
    /\ \E i \in 1..Len(all_results) : all_results[i].status # "success"
    /\ \E i \in 1..Len(all_results) : all_results[i].status = "success"
    /\ state_file.kind = "truncated"

\* C6: the returned list is in catalog order.
C6_CatalogOrder ==
    phase = "returned"
    => \A i, j \in 1..Len(all_results) :
          i < j => CatalogIndex(ResultKey(all_results[i]))
                     < CatalogIndex(ResultKey(all_results[j]))

\* C9: two invocations in flight at the same time for different keys write
\* different artifact paths.
C9_ArtifactRaceFree ==
    \A b1, b2 \in InFlight :
        Key(RowInFlight(b1)) # Key(RowInFlight(b2))
        => OutputSdf(RowInFlight(b1)) # OutputSdf(RowInFlight(b2))

\* C10: the number of child processes in flight never exceeds max_workers.
C10_PoolBound == Cardinality(InFlight) <= max_workers

\* C10 witness: max_workers children are in flight while another batch waits
\* for a thread.
C10_Witness ==
    /\ Cardinality(InFlight) = max_workers
    /\ Pending # {}

LastResult(f) == f.results[Len(f.results)]

\* C16: an invocation cut off by the timeout gets a result with status timeout,
\* whatever the exit code and whether or not the artifact exists, and the pair
\* id of an item whose result is a timeout is not in the Ledger in that run.
C16_TimeoutClassification ==
    /\ [][\A b \in DOMAIN futures, returncode \in {0, 1}, wrote \in BOOLEAN :
             ChildEnds(b, TRUE, returncode, wrote)
             => LastResult(futures'[b]).status = "timeout"]_vars
    /\ [](phase \in {"collecting", "returned"}
           => \A i \in 1..Len(all_results) :
                 all_results[i].status = "timeout"
                 => all_results[i].pair_id \notin completed_pairs)

\* C17: an invocation that ends within the timeout gets status success exactly
\* when the exit code is zero and the output artifact exists; otherwise it gets
\* status error with the captured standard-error text attached.
C17_SuccessIffExitZeroAndArtifact ==
    [][\A b \in DOMAIN futures, returncode \in {0, 1}, wrote \in BOOLEAN :
          ChildEnds(b, FALSE, returncode, wrote)
          => LET result == LastResult(futures'[b])
                 artifact_exists == OutputSdf(RowInFlight(b)) \in disk'
             IN /\ result.status = "success" <=> (returncode = 0 /\ artifact_exists)
                /\ result.status # "success"
                     => (result.status = "error" /\ result.error = "stderr")]_vars

\* C17 witness: a run returned a success and an error result that carries the
\* standard-error text, the artifact of the failed item being absent.
C17_Witness ==
    /\ phase = "returned"
    /\ \E i \in 1..Len(all_results) : all_results[i].status = "success"
    /\ \E i \in 1..Len(all_results) :
          /\ all_results[i].status = "error"
          /\ all_results[i].error = "stderr"
          /\ (<<"gnina_out/">> \o all_results[i].pair_id \o PosesSuffix) \notin disk

C34_CountersConsistent ==
    phase = "returned"
    => /\ successful + failed = Len(all_results)
       /\ successful + failed <= Len(catalog)
       /\ successful = Cardinality({i \in 1..Len(all_results) :
                                       all_results[i].status = "success"})

(***************************************************************************)
(* Termination of a run (checked under TerminationSpec).                   *)
(***************************************************************************)
\* the keys a catalog can hold
PoolKeys == {<<RowPool[i].receptor, RowPool[i].site_id, RowPool[i].ligand>> :
                i \in 1..Len(RowPool)}

\* the run holds a result with a terminal status for the key
HasTerminalResult(k) ==
    \E i \in 1..Len(all_results) :
        /\ <<all_results[i].receptor, all_results[i].site_id,
             all_results[i].ligand>> = k
        /\ all_results[i].status \in {"success", "error", "timeout"}

\* the call is over with every submitted batch collected and a result with a
\* terminal status for every item whose child process was started; it has
\* returned unless the catalog was empty
RunIsOver ==
    /\ \/ phase = "returned"
       \/ phase = "raised" /\ total_pairs = 0
    /\ collected = DOMAIN futures
    /\ \A k \in started : HasTerminalResult(k)

C27_LedgerAccessSerialized ==
    [][\A b \in DOMAIN futures : RunSingleDocking(b) => marking.at # "add"]_vars

\* batch b has a child in flight and a further row the Ledger does not list
HasFurtherItem(b) ==
    /\ b \in InFlight
    /\ futures[b].pos < Len(BatchRows(b))
    /\ ~AlreadyCompleted(PairId(BatchRows(b)[futures[b].pos + 1]))

\* C28: while an item of a batch has its child in flight, the pool is at least
\* two wide and fewer than max_workers children are in flight, the next item
\* of the same batch can be dispatched (checked under Spec).
C28_IntraBatchConcurrency ==
    \A b \in DOMAIN futures :
        (/\ phase = "collecting"
         /\ max_workers >= 2
         /\ Cardinality(InFlight) < max_workers
         /\ HasFurtherItem(b))
        => ENABLED RunSingleDocking(b)

(***************************************************************************)
(* Properties of the Completion Ledger and its state file.                 *)
(***************************************************************************)
\* the run has loaded the Ledger and no pool thread has taken a batch yet
RunJustStarted == phase = "collecting" /\ Pending = DOMAIN futures

\* C11: when a run starts, the Ledger holds every key listed in the state file
\* persisted before, whether or not its artifact still exists, and every key
\* whose artifact is in gnina_out/, whether or not the state file is readable
\* (checked under LedgerSpec).
C11_LedgerUnion ==
    RunJustStarted
    => /\ (persisted0.kind = "valid" => persisted0.completed_pairs \subseteq ledger0)
       /\ LoadCompletedPairs({}) \subseteq ledger0

\* C12: once a later run has persisted the state file, the completed set in
\* the file contains the set the file held when that run started (the set an
\* earlier run left there), and the completed set in memory contains the set
\* the run started with (checked under LedgerSpec; stated for the persists
\* that returned normally).
C12_LedgerMonotone ==
    phase \in {"collecting", "returned"}
    => /\ ((/\ persisted0.kind = "valid"
            /\ collected # {}
            /\ state_file.kind = "valid")
           => persisted0.completed_pairs \subseteq state_file.completed_pairs)
       /\ ledger0 \subseteq completed_pairs

\* C13: a crash during the write of the state file leaves a complete state
\* file on disk: when the run started with a valid file, the file is still
\* valid after the crash.
C13_AtomicPersist ==
    (phase = "crashed" /\ persisted0.kind = "valid") => state_file.kind = "valid"

\* the pair ids of the successful results of the batches collected so far
CollectedSuccesses ==
    UNION { {futures[b].results[i].pair_id : i \in SuccessesOf(futures[b].results)} :
            b \in collected }

NoTaggedLine ==
    \A i \in 1..Len(output_sdf.lines) :
        \A j \in 1..Len(output_sdf.lines[i]) :
            output_sdf.lines[i][j] \notin {"CNNscore", "<CNNscore>"}

\* C18: on an output file that is missing, empty, or without a score-tagged
\* line, parse_gnina_output returns the empty list and does not raise.
C18_ParserRobust ==
    (parsed.called /\ (output_sdf.kind = "missing" \/ NoTaggedLine))
    => (parsed.scores = <<>> /\ ~parsed.raised)

\* C18 witness: the parser was called on a text of two or more lines, none of
\* them tagged and one of them a bare number.
C18_Witness ==
    /\ parsed.called
    /\ output_sdf.kind = "text"
    /\ Len(output_sdf.lines) >= 2
    /\ NoTaggedLine
    /\ \E i \in 1..Len(output_sdf.lines) : output_sdf.lines[i] = <<"0.9">>

\* the lines of the parsed file that carry the tag and end in a number
ScoreLines ==
    {i \in 1..Len(output_sdf.lines) :
        LET line == output_sdf.lines[i] IN
        /\ \E j \in 1..Len(line) : line[j] \in {"CNNscore", "<CNNscore>"}
        /\ line[Len(line)] \in {"0.6", "0.9"}}

\* the k-th of them in file order
ScoreLine(k) ==
    CHOOSE i \in ScoreLines : Cardinality({j \in ScoreLines : j <= i}) = k

\* the number a trailing token stands for, in hundredths
TokenValue(word) == IF word = "0.6" THEN 60 ELSE 90

\* C30: parse_gnina_output returns one PoseScore per tagged line whose last
\* token is a number, in file order: the k-th PoseScore has pose_id k, so the
\* pose ids are 1..n without gaps and a tagged line without a number takes
\* none, its cnn_score is the token of the k-th such line and its affinity
\* equals its cnn_score.
C30_PoseScoresInFileOrder ==
    (parsed.called /\ output_sdf.kind = "text")
    => /\ Len(parsed.scores) = Cardinality(ScoreLines)
       /\ \A k \in 1..Len(parsed.scores) :
            LET line == output_sdf.lines[ScoreLine(k)] IN
            /\ parsed.scores[k].pose_id = k
            /\ parsed.scores[k].cnn_score = TokenValue(line[Len(line)])
            /\ parsed.scores[k].cnn_affinity = parsed.scores[k].cnn_score

\* C30 witness: the first line carries the tag without a number, the second
\* the tag and a number, and the one PoseScore returned has pose_id 1.
C30_Witness ==
    /\ parsed.called
    /\ output_sdf.kind = "text"
    /\ output_sdf.lines = << <<">", "<CNNscore>">>, <<"CNNscore", "0.6">> >>
    /\ Len(parsed.scores) = 1
    /\ parsed.scores[1].pose_id = 1
    /\ parsed.scores[1].cnn_score = 60

(***************************************************************************)
(* Properties of one invocation (checked under InvocationSpec).            *)
(***************************************************************************)
\* the artifact holds no line with the score tag and a number as its last word
NoScoreLine ==
    \A i \in 1..Len(output_sdf.lines) :
        LET line == output_sdf.lines[i] IN
        ~(/\ \E j \in 1..Len(line) : line[j] \in {"CNNscore", "<CNNscore>"}
          /\ IsFloat(line[Len(line)]))

\* C29: when the child exits with code zero within the timeout and its
\* artifact exists but cannot be read or holds no score line, the result has
\* status success and an empty score list, and once the main thread has
\* counted a success result its pair id is in the Ledger.
C29_ParseFailureKeepsStatus ==
    /\ [][(SingleDockingEnds(FALSE, 0) /\ output_sdf.kind # "missing" /\ NoScoreLine)
          => /\ all_results'[1].status = "success"
             /\ all_results'[1].scores = <<>>]_vars
    /\ []((/\ successful + failed > 0
            /\ all_results[1].status = "success")
           => all_results[1].pair_id \in completed_pairs)

\* C29 witness: the artifact holds the tag line of a score with the value on
\* the next line, the result is a success without scores and its pair id is in
\* the Ledger.
C29_Witness ==
    /\ output_sdf.kind = "text"
    /\ output_sdf.lines = << <<">", "<CNNscore>">>, <<"0.9">> >>
    /\ all_results # <<>>
    /\ all_results[1].status = "success"
    /\ all_results[1].scores = <<>>
    /\ PairId(InvokedRow) \in completed_pairs

(***************************************************************************)
(* Properties of the Funnel Controller (checked under FunnelSpec).         *)
(***************************************************************************)
RowKeys(rows) == {Key(rows[i]) : i \in 1..Len(rows)}

\* the keys with a successful result that carries at least one score
ScoredSuccessKeys(results) ==
    {ResultKey(results[i]) :
        i \in {j \in 1..Len(results) :
                 results[j].status = "success" /\ results[j].scores # <<>>}}

\* C7: the input of the stage at position n+1 is a subset of the items with a
\* successful, scored result in the stage at position n (stated for the
\* positions after the first whose stage is not 'A', the stage the filter
\* passes unfiltered by name).
C7_FunnelChain ==
    \A n \in 1..(Len(stage_inputs) - 1) :
        stages[n + 1] # "A"
        => RowKeys(stage_inputs[n + 1]) \subseteq ScoredSuccessKeys(stage_outputs[n])

\* C8: an item without a score in the previous results handed to the filter is
\* in the input of no stage after the first, also when those results hold no
\* score at all (stated for the stages other than 'A').
C8_UnscoredExcluded ==
    \A n \in 2..Len(stage_inputs) :
        stages[n] # "A"
        => \A k \in RowKeys(stage_inputs[n]) :
              k \in ScoredSuccessKeys(prev_used[n].results)

\* the scores of the successful results for the key of a row
ScoresOf(results, row) ==
    UNION { {results[i].scores[j] : j \in 1..Len(results[i].scores)} :
            i \in {k \in 1..Len(results) :
                     results[k].status = "success" /\ ResultKey(results[k]) = Key(row)} }

\* C19: every item in the input of a stage after the first (other than 'A')
\* has a best pose score in the previous results handed to the filter, and
\* that score is at least the stage's cnn_score_threshold.
C19_ScoreThreshold ==
    \A n \in 2..Len(stage_inputs) :
        stages[n] # "A"
        => \A i \in 1..Len(stage_inputs[n]) :
              LET scores == ScoresOf(prev_used[n].results, stage_inputs[n][i])
              IN /\ scores # {}
                 /\ SetMax(scores) >= StageConfig(stages[n]).cnn_score_threshold

(***************************************************************************)
(* Properties of the filter (checked under FilterSpec).                    *)
(***************************************************************************)
\* the filter was called for a stage other than 'A'
FilterApplied == filtered.called /\ stages[1] # "A"

\* with the threshold 0.5 as the only criterion, the six items scored 0.9, 0.8,
\* 0.75, 0.6, 0.55, 0.3 leave the five items scored 0.5 or more
ThresholdExample ==
    (/\ FilterApplied
     /\ pairlist_df = SixItems
     /\ previous_results.results = ScoredResults(SixItems, SixScores)
     /\ stage_config = ThresholdOnly)
    => filtered.rows = SubSeq(SixItems, 1, 5)

\* the keys of a receptor's items that have a score in the results
ScoredKeysOfReceptor(results, receptor) ==
    {k \in ScoredSuccessKeys(results) : k[1] = receptor}

\* the best score of the item with key k
BestOfKey(results, k) ==
    SetMax(UNION { {results[i].scores[j] : j \in 1..Len(results[i].scores)} :
                   i \in {n \in 1..Len(results) :
                            results[n].status = "success" /\ ResultKey(results[n]) = k} })

\* the best scores of a set of items in ascending order
RECURSIVE SortedBest(_, _)
SortedBest(results, keys) ==
    IF keys = {} THEN <<>>
    ELSE LET m == CHOOSE k \in keys :
                    \A q \in keys : BestOfKey(results, k) <= BestOfKey(results, q)
         IN <<BestOfKey(results, m)>> \o SortedBest(results, keys \ {m})

\* C20: under the stage table of the workflow, when top_percentage is set, a
\* scored item the filter lets through has a best score at or above the
\* (1 - top_percentage)-quantile of the best scores of the items of its
\* receptor; and of five items of one receptor scored 0.95, 0.9, 0.85, 0.6,
\* 0.5, top_percentage = 0.2 lets through exactly the first.
C20_TopPercentile ==
    /\ (/\ FilterApplied
        /\ stage_config = StageConfig(stages[1])
        /\ stage_config.top_percentage # NoLimit)
       => \A i \in 1..Len(filtered.rows) :
             LET row == filtered.rows[i]
                 results == previous_results.results
             IN ScoresOf(results, row) # {}
                => SetMax(ScoresOf(results, row)) * 100 >=
                      Quantile100(SortedBest(results,
                                             ScoredKeysOfReceptor(results, row.receptor)),
                                  stage_config.top_percentage)
    /\ (/\ FilterApplied
        /\ pairlist_df = FiveItems
        /\ previous_results.results = ScoredResults(FiveItems, FiveScores)
        /\ stage_config = TopFifth)
       => filtered.rows = SubSeq(FiveItems, 1, 1)

\* the first position of a ligand of the receptor in the catalog
CatalogPosition(pairlist, receptor, ligand) ==
    CHOOSE i \in 1..Len(pairlist) :
        /\ pairlist[i].receptor = receptor /\ pairlist[i].ligand = ligand
        /\ \A j \in 1..(i - 1) :
              ~(pairlist[j].receptor = receptor /\ pairlist[j].ligand = ligand)

\* the ligands of the receptor with a score in the results
ScoredLigands(results, receptor) ==
    {k[3] : k \in ScoredKeysOfReceptor(results, receptor)}

\* the best score of a ligand of the receptor over the results
BestOfLigand(results, receptor, ligand) ==
    SetMax(UNION { {results[i].scores[j] : j \in 1..Len(results[i].scores)} :
                   i \in {n \in 1..Len(results) :
                            /\ results[n].status = "success"
                            /\ results[n].receptor = receptor
                            /\ results[n].ligand = ligand} })

\* the n highest-scoring ligands of the receptor, ties going to the ligand
\* that comes first in the catalog
HighestScoring(results, pairlist, receptor, n) ==
    LET L == ScoredLigands(results, receptor)
        Ahead(l1, l2) ==
            \/ BestOfLigand(results, receptor, l1) > BestOfLigand(results, receptor, l2)
            \/ /\ BestOfLigand(results, receptor, l1) = BestOfLigand(results, receptor, l2)
               /\ CatalogPosition(pairlist, receptor, l1)
                    < CatalogPosition(pairlist, receptor, l2)
    IN {l \in L : Cardinality({m \in L : Ahead(m, l)}) < n}

\* the cap keeps to the highest-scoring ligands, ties going to the ligand that
\* comes first in the catalog
PerGroupCapGeneral ==
    (/\ FilterApplied
     /\ stage_config = StageConfig(stages[1])
     /\ stage_config.max_ligands_per_receptor # NoLimit
     /\ ResultsDf(previous_results.results) # {})
    => \A i \in 1..Len(filtered.rows) :
          filtered.rows[i].ligand \in
             HighestScoring(previous_results.results, pairlist_df,
                            filtered.rows[i].receptor,
                            stage_config.max_ligands_per_receptor)

\* of seven ligands of one receptor with different scores, the cap of two as
\* the only criterion besides the threshold leaves the two highest-scoring ones
PerGroupCapExample ==
    (/\ FilterApplied
     /\ pairlist_df = SevenItems
     /\ previous_results.results = ScoredResults(SevenItems, SevenScores)
     /\ stage_config = CapTwo)
    => filtered.rows = <<SevenItems[2], SevenItems[5]>>

\* C21: under the stage table of the workflow, when max_ligands_per_receptor
\* is set, every item the filter lets through has a ligand among the
\* max_ligands_per_receptor highest-scoring ligands of its receptor, ties
\* going to the ligand that comes first in the catalog; and of seven ligands
\* of one receptor with different scores, max_ligands_per_receptor = 2 lets
\* through exactly the two highest-scoring ones.
C21_PerGroupCap == PerGroupCapGeneral /\ PerGroupCapExample

(***************************************************************************)
(* Properties of the stage loop (checked under FunnelSpec).                *)
(***************************************************************************)
\* C22: the input of the first stage of the stage list is the catalog itself,
\* same rows in the same order, whichever stage it is.
C22_FirstStageUnmodified ==
    Len(stage_inputs) >= 1 => stage_inputs[1] = pairlist_df

\* C22 witness: the stage list starts with stage 'C', the Scheduler has run
\* it on the whole catalog and returned a result for every row.
C22_Witness ==
    /\ Len(stage_inputs) >= 1
    /\ stages[1] = "C"
    /\ stage_inputs[1] = pairlist_df
    /\ Len(pairlist_df) >= 2
    /\ Len(stage_outputs[1]) = Len(pairlist_df)

\* the argument that follows a flag in a command
ArgValue(cmd, flag) == cmd[(CHOOSE i \in 1..Len(cmd) : cmd[i] = flag) + 1]

\* C23: every command built during a stage carries the scoring mode, the
\* exhaustiveness and the pose-mode count the stage table gives for that stage.
C23_StageConfigActive ==
    \A n \in 1..Len(stage_commands) :
        \A cmd \in stage_commands[n] :
            /\ ArgValue(cmd, "--cnn_scoring") = StageConfig(stages[n]).cnn_scoring
            /\ ArgValue(cmd, "--exhaustiveness") = Str(StageConfig(stages[n]).exhaustiveness)
            /\ ArgValue(cmd, "--num_modes") = Str(StageConfig(stages[n]).num_modes)

\* C23 witness: two different stages have run one after the other and a
\* command was built in each of them.
C23_Witness ==
    /\ Len(stage_commands) >= 2
    /\ stages[1] # stages[2]
    /\ stage_commands[1] # {}
    /\ stage_commands[2] # {}

(***************************************************************************)
(* Properties of the catalog loaders (checked under LoaderSpec).           *)
(***************************************************************************)
\* the file lacks a required column, or a geometry cell of some row is not a
\* number
Malformed(file) ==
    \/ RequiredCols \ file.header # {}
    \/ \E i \in 1..Len(file.rows) :
          \E col \in CoordCols \cap file.header : ~IsNumberText(file.rows[i][col])

\* C24: the load of a malformed catalog returns no catalog (None, or the empty
\* list of read_pairlist) and no child process is started after it, wherever
\* in the file the bad row is.
C24_MalformedCatalogFailsFast ==
    (loaded.called /\ Malformed(pairlist_csv))
    => /\ (loaded.none \/ loaded.rows = <<>>)
       /\ dispatched = 0

\* the same for read_pairlist alone
ReadPairlistFailsFast == loader = "hpc" => C24_MalformedCatalogFailsFast

\* the same for the geometry cells that are words, for both loaders
WordCellFailsFast ==
    (/\ loaded.called
     /\ \/ RequiredCols \ pairlist_csv.header # {}
        \/ \E i \in 1..Len(pairlist_csv.rows) : pairlist_csv.rows[i]["center_x"] = "abc")
    => /\ (loaded.none \/ loaded.rows = <<>>)
       /\ dispatched = 0

\* the results handed to the filter of a stage after the first are those of
\* the stage one position before it
PreviousIsPrecedingStage ==
    \A n \in 2..Len(prev_used) : prev_used[n].results = stage_outputs[n - 1]

\* every result of a stage carries the name of the stage
ResultsCarryStageName ==
    \A n \in 1..Len(stage_outputs) :
        \A i \in 1..Len(stage_outputs[n]) : stage_outputs[n][i].stage = stages[n]

\* C26: the results handed to the filter of the stage at position n > 1 are
\* exactly the results of the stage at position n - 1, also when that stage
\* had an empty input or returned no result, and every result of a stage
\* carries the stage's name.
C26_PreviousIsPrecedingStage == PreviousIsPrecedingStage /\ ResultsCarryStageName

\* C32: in a funnel run on one engine, every item of the input of a stage
\* after the first is invoked in that stage and has a result of that stage
\* carrying the stage's name; it is not left out because its success in an
\* earlier stage put its key in the Ledger and its artifact on disk.
C32_LaterStageItemsInvoked ==
    \A n \in 2..Len(stage_inputs) :
        \A i \in 1..Len(stage_inputs[n]) :
            \E j \in 1..Len(stage_outputs[n]) :
                /\ stage_outputs[n][j].pair_id = PairId(stage_inputs[n][i])
                /\ stage_outputs[n][j].stage = stages[n]

\* C35: a run over an empty population ends without a fault:
\* run_parallel_docking on the empty catalog returns the empty list, and a
\* run_tiered_workflow whose stages gave no result at all completes its final
\* reporting and returns.
C35_EmptyPopulationNoFault ==
    /\ (phase \in {"returned", "raised"} /\ catalog = <<>>)
       => (phase = "returned" /\ all_results = <<>>)
    /\ (wphase \in {"returned", "raised"} /\ workflow_results = <<>>)
       => wphase = "returned"

(***************************************************************************)
(* Properties of the configuration (checked under ConfigSpec).             *)
(***************************************************************************)
\* how many times a flag stands in the command line built last
FlagCount(flag) == Cardinality({i \in 1..Len(command) : command[i] = flag})

\* C31: every command line built carries exactly one device selection, the
\* GPU flag --device or the CPU flag --cpu and not both, and carries --device
\* only if the probe at construction found a GPU, whatever set_* calls were
\* made before.
C31_OneDeviceSelection ==
    command # <<>>
    => /\ FlagCount("--device") + FlagCount("--cpu") = 1
       /\ FlagCount("--device") = 1 => gpu_probe

\* C31 witness: without a GPU, set_gpu_acceleration(True, 1) was called and the
\* command built afterwards carries --cpu.
C31_Witness ==
    /\ ~gpu_probe
    /\ calls > 0
    /\ config.active_config.gpu_device = 1
    /\ command # <<>>
    /\ FlagCount("--cpu") = 1

\* the entries of active_config a stage switch may write
StageFields == {"cnn_scoring", "exhaustiveness", "num_modes"}

\* C38: a set_tiered_stage call for a defined stage writes the scoring mode,
\* the exhaustiveness and the pose-mode count of that stage into the active
\* configuration and leaves every other entry of it and the base
\* configuration as they were; for a name outside the defined stages it
\* raises ValueError and changes nothing.
C38_SetTieredStageFrame ==
    [][\A stage \in {"stage_a", "stage_b", "stage_c", "stage_d"} :
          SetTieredStageCall(stage)
          => /\ config'.base_config = config.base_config
             /\ DOMAIN config'.active_config = DOMAIN config.active_config
             /\ \A f \in DOMAIN config.active_config \ StageFields :
                   config'.active_config[f] = config.active_config[f]
             /\ stage \in {"stage_a", "stage_b", "stage_c"}
                   => /\ ~value_error'
                      /\ \A f \in StageFields :
                            config'.active_config[f] = TieredConfig(stage)[f]
             /\ stage = "stage_d"
                   => /\ value_error'
                      /\ config' = config]_vars

\* C38 witness: after set_performance_params(cpu_cores=8) and
\* set_gpu_acceleration(gpu_device=1), set_tiered_stage('stage_b') has been
\* called: the three stage values are set, cpu_cores and gpu_device are kept.
C38_Witness ==
    /\ ~value_error
    /\ calls = 3
    /\ config.active_config.cnn_scoring = "refinement"
    /\ config.active_config.exhaustiveness = 24
    /\ config.active_config.num_modes = 15
    /\ config.active_config.cpu_cores = 8
    /\ config.active_config.gpu_device = 1
    /\ config.base_config.cpu_cores = 4

(***************************************************************************)
(* Properties of the HPC variant (checked under HpcSpec).                  *)
(***************************************************************************)
\* C36: in a run_standard_docking call of the HPC variant, every command line
\* the engine builds carries the scoring mode passed as cnn_mode.
C36_HpcScoringModeCarried ==
    command # <<>> => ArgValue(command, "--cnn_scoring") = cnn_mode

\* C37: with USE_CPU_MODE=1, every command line of the HPC variant carries
\* the CPU flag --cpu and no GPU flag --device, and the wrapper carries no
\* --nv, whatever the probe found.
C37_HpcCpuModeHonoured ==
    (use_cpu_mode /\ command # <<>>)
    => /\ FlagCount("--cpu") = 1
       /\ FlagCount("--device") = 0
       /\ FlagCount("--nv") = 0

====
